---------------------------- MODULE Spec2Model ----------------------------
(***************************************************************************)
(* A model of the CyberIQ aggregation, caching and enrichment pipeline     *)
(* (api_enhanced.py, cvss_enricher.py, epss_enricher.py).                  *)
(*                                                                         *)
(* Eight specifications share the variables:                               *)
(*   Spec          the SimpleCache object used by concurrent threads, each  *)
(*                 step of get/set/clear under the lock being one action;   *)
(*   SpecAdapters  the three source adapters, called one at a time;         *)
(*   SpecEnrich    the score lookups and the enrichment functions;          *)
(*   SpecPriority  the two priority functions on every pair of scores;      *)
(*   SpecQuery     the /api/query and /api/export-csv handlers next to the  *)
(*                 adapter calls of the start-up thread, one action per     *)
(*                 request;                                                 *)
(*   SpecPipeline  the two handlers on longer lists, every upstream         *)
(*                 answering;                                               *)
(*   SpecWarm      an adapter called by two threads at once, each step of   *)
(*                 the call being one action;                               *)
(*   SpecResolve   optimize_query and parse_query_with_claude on query      *)
(*                 texts, which are sequences of characters.                *)
(*                                                                         *)
(* Scores are integers: a CVSS score is the score times ten (9.0 is 90),   *)
(* an EPSS score is a whole percentage.  The values Python code uses for   *)
(* "no score" are the negative codes NA ('N/A') and NoneVal (None); a key  *)
(* a record does not have is outside the record's domain.  Dates are the   *)
(* integers YYYYMMDD, 0 for a date that is missing.                        *)
(***************************************************************************)
EXTENDS Integers, Sequences, FiniteSets, TLC

VARIABLES
    cache,      \* SimpleCache.cache: key -> [value, expires]
    lock,       \* SimpleCache.lock: the thread holding it, or NoThread
    clock,      \* time.time(), in seconds
    pc,         \* per thread: the position inside get/set/clear
    op,         \* per thread: the call in progress and its arguments
    entry,      \* per thread: the local variable entry of get
    now,        \* per thread: the value time.time() returned to get
    ret,        \* per thread: the value get is about to return
    last,       \* history: per key, the most recent completed set
    stored,     \* history: per key, the value handed to cache.set
    call,       \* the call being answered: its inputs and its result, or NoCall
    cvss_cache, \* cvss_enricher.cvss_cache
    epss_cache  \* epss_enricher.epss_cache

vars == <<cache, lock, clock, pc, op, entry, now, ret, last, stored, call,
          cvss_cache, epss_cache>>

-----------------------------------------------------------------------------
(* Bounds of the model *)

MaxClock == 2          \* Spec: the clock runs from 0 to MaxClock
MaxTtl == 2            \* Spec: ttl_seconds ranges over 1..MaxTtl

-----------------------------------------------------------------------------
(* Python values *)

None == "None"
EmptyDict == [x \in {} |-> x]

DictSet(d, k, v) == (k :> v) @@ d
\* del d[k], and a variant that sweeps every expired entry on the way
DictDelSweeping(d, k) ==
    [x \in {y \in (DOMAIN d) \ {k} : clock < d[y].expires} |-> d[x]]
DictDel(d, k) == [x \in (DOMAIN d) \ {k} |-> d[x]]

-----------------------------------------------------------------------------
(* SimpleCache, api_enhanced.py 139-167 *)

Threads == {"handler", "warm"}
NoThread == "nobody"
Keys == {"kev_data", "zdi_advisories_30"}
Values == {"v1", "v2"}

NoCall == [name |-> "none"]

\* with self.lock: the lock is acquired only when nobody holds it
CanAcquireUnguarded(t) == TRUE
CanAcquire(t) == lock = NoThread

\* leaving the with block (normally or by an exception) releases the lock
Released(t) == IF lock = t THEN NoThread ELSE lock

\* line 150: time.time() < entry['expires']
UnexpiredInclusive(e, t) == t <= e.expires
Unexpired(e, t) == t < e.expires

\* line 159-162: the entry set() writes
NewEntry(v, ttl, t) == [value |-> v, expires |-> t + ttl]

\* get/set/clear run as one step each (used where no other thread runs)
CacheGet(c, k, t) ==
    IF k \in DOMAIN c /\ Unexpired(c[k], t) THEN c[k].value ELSE None
CacheAfterGet(c, k, t) ==
    IF k \in DOMAIN c /\ ~Unexpired(c[k], t) THEN DictDel(c, k) ELSE c
CacheAfterSet(c, k, v, ttl, t) == DictSet(c, k, NewEntry(v, ttl, t))

CacheFrame == UNCHANGED <<stored, call, cvss_cache, epss_cache>>

GetCall(t, k) ==
    /\ pc[t] = "idle"
    /\ pc' = [pc EXCEPT ![t] = "get_acquire"]
    /\ op' = [op EXCEPT ![t] = [name |-> "get", key |-> k]]
    /\ ret' = [ret EXCEPT ![t] = None]
    /\ UNCHANGED <<cache, lock, clock, entry, now, last>>
    /\ CacheFrame

GetAcquire(t) ==
    /\ pc[t] = "get_acquire"
    /\ CanAcquire(t)
    /\ lock' = t
    /\ pc' = [pc EXCEPT ![t] = "get_contains"]
    /\ UNCHANGED <<cache, clock, op, entry, now, ret, last>>
    /\ CacheFrame

\* line 148: if key in self.cache
GetContains(t) ==
    /\ pc[t] = "get_contains"
    /\ pc' = [pc EXCEPT ![t] = IF op[t].key \in DOMAIN cache
                                THEN "get_load" ELSE "get_absent"]
    /\ UNCHANGED <<cache, lock, clock, op, entry, now, ret, last>>
    /\ CacheFrame

\* line 149: entry = self.cache[key]   (KeyError when the key is gone)
GetLoad(t) ==
    /\ pc[t] = "get_load"
    /\ IF op[t].key \in DOMAIN cache
       THEN /\ entry' = [entry EXCEPT ![t] = cache[op[t].key]]
            /\ pc' = [pc EXCEPT ![t] = "get_compare"]
            /\ lock' = lock
       ELSE /\ entry' = entry
            /\ pc' = [pc EXCEPT ![t] = "raised"]
            /\ lock' = Released(t)
    /\ UNCHANGED <<cache, clock, op, now, ret, last>>
    /\ CacheFrame

\* line 150-151
GetCompare(t) ==
    /\ pc[t] = "get_compare"
    /\ now' = [now EXCEPT ![t] = clock]
    /\ IF Unexpired(entry[t], clock)
       THEN /\ ret' = [ret EXCEPT ![t] = entry[t].value]
            /\ pc' = [pc EXCEPT ![t] = "get_hit"]
       ELSE /\ ret' = ret
            /\ pc' = [pc EXCEPT ![t] = "get_delete"]
    /\ UNCHANGED <<cache, lock, clock, op, entry, last>>
    /\ CacheFrame

\* line 153: del self.cache[key]   (KeyError when the key is gone)
GetDelete(t) ==
    /\ pc[t] = "get_delete"
    /\ IF op[t].key \in DOMAIN cache
       THEN /\ cache' = DictDel(cache, op[t].key)
            /\ pc' = [pc EXCEPT ![t] = "get_miss"]
            /\ lock' = lock
       ELSE /\ cache' = cache
            /\ pc' = [pc EXCEPT ![t] = "raised"]
            /\ lock' = Released(t)
    /\ UNCHANGED <<clock, op, entry, now, ret, last>>
    /\ CacheFrame

\* line 151 / 154: the with block is left and the value handed to the caller
GetReturn(t) ==
    /\ pc[t] \in {"get_hit", "get_miss", "get_absent"}
    /\ lock' = Released(t)
    /\ pc' = [pc EXCEPT ![t] = "idle"]
    /\ op' = [op EXCEPT ![t] = NoCall]
    /\ entry' = [entry EXCEPT ![t] = None]
    /\ now' = [now EXCEPT ![t] = 0]
    /\ ret' = [ret EXCEPT ![t] = None]
    /\ UNCHANGED <<cache, clock, last>>
    /\ CacheFrame

SetCall(t, k, v, ttl) ==
    /\ pc[t] = "idle"
    /\ pc' = [pc EXCEPT ![t] = "set_acquire"]
    /\ op' = [op EXCEPT ![t] = [name |-> "set", key |-> k, value |-> v, ttl |-> ttl]]
    /\ UNCHANGED <<cache, lock, clock, entry, now, ret, last>>
    /\ CacheFrame

SetAcquire(t) ==
    /\ pc[t] = "set_acquire"
    /\ CanAcquire(t)
    /\ lock' = t
    /\ pc' = [pc EXCEPT ![t] = "set_store"]
    /\ UNCHANGED <<cache, clock, op, entry, now, ret, last>>
    /\ CacheFrame

\* line 159-162, then the with block is left
SetStore(t) ==
    /\ pc[t] = "set_store"
    /\ cache' = DictSet(cache, op[t].key, NewEntry(op[t].value, op[t].ttl, clock))
    /\ last' = DictSet(last, op[t].key,
                       [value |-> op[t].value, at |-> clock, ttl |-> op[t].ttl])
    /\ lock' = Released(t)
    /\ pc' = [pc EXCEPT ![t] = "idle"]
    /\ op' = [op EXCEPT ![t] = NoCall]
    /\ UNCHANGED <<clock, entry, now, ret>>
    /\ CacheFrame

ClearCall(t) ==
    /\ pc[t] = "idle"
    /\ pc' = [pc EXCEPT ![t] = "clear_acquire"]
    /\ op' = [op EXCEPT ![t] = [name |-> "clear"]]
    /\ UNCHANGED <<cache, lock, clock, entry, now, ret, last>>
    /\ CacheFrame

ClearAcquire(t) ==
    /\ pc[t] = "clear_acquire"
    /\ CanAcquire(t)
    /\ lock' = t
    /\ pc' = [pc EXCEPT ![t] = "clear_store"]
    /\ UNCHANGED <<cache, clock, op, entry, now, ret, last>>
    /\ CacheFrame

\* line 167, then the with block is left
ClearStore(t) ==
    /\ pc[t] = "clear_store"
    /\ cache' = EmptyDict
    /\ last' = EmptyDict
    /\ lock' = Released(t)
    /\ pc' = [pc EXCEPT ![t] = "idle"]
    /\ op' = [op EXCEPT ![t] = NoCall]
    /\ UNCHANGED <<clock, entry, now, ret>>
    /\ CacheFrame

\* time.time() advances
Tick ==
    /\ clock < MaxClock
    /\ clock' = clock + 1
    /\ UNCHANGED <<cache, lock, pc, op, entry, now, ret, last>>
    /\ CacheFrame

Init ==
    /\ cache = EmptyDict
    /\ lock = NoThread
    /\ clock = 0
    /\ pc = [t \in Threads |-> "idle"]
    /\ op = [t \in Threads |-> NoCall]
    /\ entry = [t \in Threads |-> None]
    /\ now = [t \in Threads |-> 0]
    /\ ret = [t \in Threads |-> None]
    /\ last = EmptyDict
    /\ stored = EmptyDict
    /\ call = NoCall
    /\ cvss_cache = EmptyDict
    /\ epss_cache = EmptyDict

Next ==
    \/ \E t \in Threads, k \in Keys : GetCall(t, k)
    \/ \E t \in Threads : GetAcquire(t)
    \/ \E t \in Threads : GetContains(t)
    \/ \E t \in Threads : GetLoad(t)
    \/ \E t \in Threads : GetCompare(t)
    \/ \E t \in Threads : GetDelete(t)
    \/ \E t \in Threads : GetReturn(t)
    \/ \E t \in Threads, k \in Keys, v \in Values, ttl \in 1..MaxTtl : SetCall(t, k, v, ttl)
    \/ \E t \in Threads : SetAcquire(t)
    \/ \E t \in Threads : SetStore(t)
    \/ \E t \in Threads : ClearCall(t)
    \/ \E t \in Threads : ClearAcquire(t)
    \/ \E t \in Threads : ClearStore(t)
    \/ Tick

Spec == Init /\ [][Next]_vars

-----------------------------------------------------------------------------
(* Claims about SimpleCache *)

Returning(t) == pc[t] \in {"get_hit", "get_miss", "get_absent"}

\* the time at which the returning get looked at the entry
ReadAt(t) == IF pc[t] = "get_absent" THEN clock ELSE now[t]

\* C1: a get(k) that follows set(k, v, ttl), with no set(k) or clear() in
\* between, returns v while the clock it reads is before the set time plus
\* ttl, and returns None once ttl seconds have elapsed.
C1_GetAfterSet ==
    \A t \in Threads :
        (Returning(t) /\ op[t].key \in DOMAIN last) =>
            LET s == last[op[t].key]
            IN  IF ReadAt(t) < s.at + s.ttl
                THEN ret[t] = s.value
                ELSE ret[t] = None

\* C1 witness: a get found the entry of an earlier set expired and is
\* returning the miss.
C1_Witness ==
    \E t \in Threads :
        /\ pc[t] = "get_miss"
        /\ op[t].key \in DOMAIN last
        /\ now[t] >= last[op[t].key].at + last[op[t].key].ttl

\* C2: under every interleaving of get, set and clear by the threads, no
\* call raises, every entry of the map is whole, and a get returns either
\* None or the value of the most recent completed set of its key, which is
\* neither expired nor cleared.
C2_ThreadSafe ==
    /\ \A t \in Threads : pc[t] # "raised"
    /\ \A k \in DOMAIN cache :
           /\ DOMAIN cache[k] = {"value", "expires"}
           /\ cache[k].value \in Values
    /\ \A t \in Threads :
           Returning(t) =>
               \/ ret[t] = None
               \/ /\ op[t].key \in DOMAIN last
                  /\ ret[t] = last[op[t].key].value
                  /\ now[t] < last[op[t].key].at + last[op[t].key].ttl

\* C2 witness: one thread returns a cached value while the other thread is
\* inside a call of its own, waiting for the lock.
C2_Witness ==
    \E t \in Threads, u \in Threads :
        /\ t # u
        /\ pc[t] = "get_hit"
        /\ ret[t] \in Values
        /\ pc[u] \in {"set_acquire", "clear_acquire", "get_acquire"}

\* the entry of key k changes, appears or disappears in this step
EntryChanges(k) ==
    \/ (k \in DOMAIN cache) # (k \in DOMAIN cache')
    \/ k \in DOMAIN cache /\ k \in DOMAIN cache' /\ cache'[k] # cache[k]

\* thread t takes a step of the call it is in
Steps(t) == pc'[t] # pc[t] /\ pc[t] # "idle"

\* C28: expiry is lazy and local to the key read. An entry leaves the map or
\* changes only by a get on its own key that found it expired (the get then
\* returns a miss), by a set on its own key, or by clear(); an entry appears
\* only by a set on its key; the passing of time alone changes nothing; and a
\* step of get(k) leaves every other key alone and, when the entry of k is
\* unexpired, the whole map.
C28_LazyLocalExpiry ==
    [][/\ \A k \in Keys :
              EntryChanges(k) =>
                  \E t \in Threads :
                      /\ Steps(t)
                      /\ \/ /\ op[t].name = "get" /\ op[t].key = k
                            /\ k \in DOMAIN cache /\ ~Unexpired(cache[k], clock)
                            /\ k \notin DOMAIN cache'
                            /\ pc'[t] = "get_miss" /\ ret'[t] = None
                         \/ /\ op[t].name = "set" /\ op[t].key = k
                            /\ k \in DOMAIN cache'
                         \/ /\ op[t].name = "clear"
                            /\ cache' = EmptyDict
       /\ \A t \in Threads :
              (Steps(t) /\ op[t].name = "get") =>
                  /\ \A k \in Keys \ {op[t].key} : ~EntryChanges(k)
                  /\ (op[t].key \in DOMAIN cache /\ Unexpired(cache[op[t].key], clock))
                         => cache' = cache]_vars

\* C28 witness: a get has deleted the expired entry of its own key and is
\* returning the miss, while the expired entry of the other key is still in
\* the map.
C28_Witness ==
    \E t \in Threads, k \in Keys :
        /\ pc[t] = "get_miss"
        /\ op[t].key # k
        /\ op[t].key \notin DOMAIN cache
        /\ k \in DOMAIN cache
        /\ ~Unexpired(cache[k], clock)

-----------------------------------------------------------------------------
(* Python helpers *)

\* dict.get(key, default)
Get(d, k, default) == IF k \in DOMAIN d THEN d[k] ELSE default

\* seq[:n]
Take(s, n) == SubSeq(s, 1, IF n < Len(s) THEN n ELSE Len(s))

\* [x for x in s if P(x)]
RECURSIVE FilterIdx(_, _, _)
FilterIdx(s, keep, i) ==
    IF i > Len(s) THEN <<>>
    ELSE (IF i \in keep THEN <<s[i]>> ELSE <<>>) \o FilterIdx(s, keep, i + 1)
Filter(s, P(_)) == FilterIdx(s, {i \in 1..Len(s) : P(s[i])}, 1)

\* [f(x) for x in s]
Map(s, f(_)) ==
    LET RECURSIVE from(_)
        from(i) == IF i > Len(s) THEN <<>> ELSE <<f(s[i])>> \o from(i + 1)
    IN  from(1)

\* list.sort(key=..., reverse=True): stable, so records with equal keys keep
\* the order they had
SortDesc(s, key(_)) ==
    LET RECURSIVE insert(_, _), upto(_)
        insert(sorted, x) ==
            IF sorted = <<>> THEN <<x>>
            ELSE IF key(Head(sorted)) >= key(x)
                 THEN <<Head(sorted)>> \o insert(Tail(sorted), x)
                 ELSE <<x>> \o sorted
        upto(i) == IF i = 0 THEN <<>> ELSE insert(upto(i - 1), s[i])
    IN  upto(Len(s))

-----------------------------------------------------------------------------
(* The upstream feeds, as the adapters receive them *)

\* 'N/A' and None as score values
NA == -1
NoneVal == -2

\* Cache TTLs, api_enhanced.py 173-177
KEV_CACHE_TTL == 300
NVD_CACHE_TTL == 300
ZDI_CACHE_TTL == 300
CVSS_CACHE_TTL == 3600
EPSS_CACHE_TTL == 3600

Id1 == "CVE-2024-0001"
Id2 == "CVE-2025-0002"
Ids == {Id1, Id2}

\* entries of the CISA catalogue: no cvss_score, epss_score or source key;
\* text holds the words of vulnerabilityName and shortDescription
K1 == [cveID |-> Id1, vendorProject |-> "Microsoft", dateAdded |-> 20240110,
       knownRansomwareCampaignUse |-> "Known", text |-> {"rce"}]
K2 == [cveID |-> Id2, vendorProject |-> "Cisco", dateAdded |-> 20250305,
       knownRansomwareCampaignUse |-> "Unknown"]
KevFeeds == {<<K1>>, <<K1, K2>>}

\* a longer catalogue: record i of Catalog(n, flagged) is one of n entries, of
\* which the first `flagged` name a ransomware campaign
MaxCatalog == 11       \* SpecPipeline: the catalogues have up to MaxCatalog entries
CatalogIds ==
    <<"CVE-2023-1001", "CVE-2023-1002", "CVE-2023-1003", "CVE-2023-1004",
      "CVE-2023-1005", "CVE-2023-1006", "CVE-2023-1007", "CVE-2023-1008",
      "CVE-2023-1009", "CVE-2023-1010", "CVE-2023-1011">>
CatalogRecord(i, flagged) ==
    [cveID |-> CatalogIds[i],
     vendorProject |-> IF i % 2 = 0 THEN "Microsoft" ELSE "Cisco",
     dateAdded |-> 20230100 + i,
     knownRansomwareCampaignUse |-> IF i <= flagged THEN "Known" ELSE "Unknown"]
Catalog(n, flagged) == [i \in 1..n |-> CatalogRecord(i, flagged)]

\* items of the NVD response: id, published date, age in days, base score
N1 == [id |-> Id2, published |-> 20250301, age |-> 5, baseScore |-> 80]
N2 == [id |-> Id1, published |-> 20250220, age |-> 20, baseScore |-> 50]
NvdFeeds == {<<>>, <<N2, N1>>}

\* items of the ZDI RSS feed: the CVE named in the title, the publication
\* date (0 when it does not parse), its age in days, the kind of flaw the
\* title names
Z1 == [cve |-> Id1, pubDate |-> 20250215, age |-> 20, kind |-> "rce",
       vendor |-> "Microsoft"]
Z2 == [cve |-> Id2, pubDate |-> 20250303, age |-> 3, kind |-> "other",
       vendor |-> "Cisco"]
Z3 == [cve |-> Id2, pubDate |-> 0, age |-> 0, kind |-> "xss", vendor |-> "Cisco"]
Z4 == [cve |-> Id2, pubDate |-> 20250303, age |-> 3, kind |-> "rce",
       vendor |-> "Cisco"]
ZdiFeeds == {<<>>, <<Z1>>, <<Z1, Z3, Z2>>}

\* what one upstream request does: it answers, or it fails
Outcomes == {"ok", "timeout", "non2xx", "malformed"}
Answers(feeds) == [outcome : {"ok"}, items : feeds]
Failures == [outcome : Outcomes \ {"ok"}, items : {<<>>}]

-----------------------------------------------------------------------------
(* Source adapters, api_enhanced.py 237-493.  Each returns the value handed *)
(* to the caller, whether it raised, the cache it leaves, whether it called *)
(* the upstream, and the value it handed to cache.set (wrote).              *)

CacheHit(c, k, t) == k \in DOMAIN c /\ Unexpired(c[k], t)

AdapterHit(c, k, t) ==
    [value |-> c[k].value, raised |-> FALSE, cache |-> c,
     called |-> FALSE, wrote |-> FALSE]

AdapterFetched(c, k, t, v, ttl) ==
    [value |-> v, raised |-> FALSE,
     cache |-> CacheAfterSet(CacheAfterGet(c, k, t), k, v, ttl, t),
     called |-> TRUE, wrote |-> TRUE]

AdapterEmpty(c, k, t) ==
    [value |-> <<>>, raised |-> FALSE, cache |-> CacheAfterGet(c, k, t),
     called |-> TRUE, wrote |-> FALSE]

AdapterRaised(c, k, t) ==
    [value |-> <<>>, raised |-> TRUE, cache |-> CacheAfterGet(c, k, t),
     called |-> TRUE, wrote |-> FALSE]

\* line 260-262: except Exception: raise HTTPException(status_code=500, ...)
KevOnFailure(c, k, t) == AdapterRaised(c, k, t)

\* line 237-262; the catalogue is kept as the list under its 'vulnerabilities'
\* key, which is all the callers read of it
fetch_kev_data(c, t, up) ==
    LET k == "kev_data"
    IN  IF CacheHit(c, k, t) THEN AdapterHit(c, k, t)
        ELSE IF up.outcome = "ok"
             THEN AdapterFetched(c, k, t, up.items, KEV_CACHE_TTL)
             ELSE KevOnFailure(c, k, t)

NvdKey(days) == IF days = 7 THEN "nvd_cves_7" ELSE "nvd_cves_30"

\* line 341-356
NvdEntry(item) ==
    [cveID |-> item.id, vendorProject |-> "Various", dateAdded |-> item.published,
     knownRansomwareCampaignUse |-> "Unknown", cvss_score |-> item.baseScore,
     epss_score |-> 0, source |-> "NVD Recent"]

\* line 296-358: the upstream answers with the items of the date range;
\* entries below 7.0 are dropped
NvdNormalise(items, days) ==
    LET inWindow(i) == i.age <= days
        high(i) == ~(i.baseScore < 70)
    IN  Map(Filter(Filter(items, inWindow), high), NvdEntry)

fetch_recent_nvd_cves(c, t, days, up) ==
    LET k == NvdKey(days)
    IN  IF CacheHit(c, k, t) THEN AdapterHit(c, k, t)
        ELSE IF up.outcome = "ok"
             THEN AdapterFetched(c, k, t, NvdNormalise(up.items, days), NVD_CACHE_TTL)
             ELSE AdapterEmpty(c, k, t)

ZdiKeyShared(days) == "zdi_advisories_30"
ZdiKey(days) == IF days = 7 THEN "zdi_advisories_7"
                ELSE IF days = 14 THEN "zdi_advisories_14"
                ELSE "zdi_advisories_30"

\* line 442-455
ZdiScore(kind) ==
    IF kind = "rce" THEN 90
    ELSE IF kind = "privesc" THEN 85
    ELSE IF kind = "xss" THEN 75
    ELSE 70

\* line 461-478
ZdiEntry(item) ==
    [cveID |-> item.cve, vendorProject |-> item.vendor, dateAdded |-> item.pubDate,
     knownRansomwareCampaignUse |-> "Unknown", cvss_score |-> ZdiScore(item.kind),
     epss_score |-> 0, source |-> "ZDI"]

\* line 403-484: items whose date does not parse or lies before the cutoff
\* are skipped
ZdiNormalise(items, days) ==
    LET parses(i) == i.pubDate # 0
        inWindow(i) == ~(i.age > days)
    IN  Map(Filter(Filter(items, parses), inWindow), ZdiEntry)

\* line 378-493.  A request that raises (timeout, status other than 2xx) ends
\* in the except branch.  A body that is not the RSS document does not raise:
\* BeautifulSoup reads it, find_all('item') finds nothing (line 399), and the
\* empty list goes the way of any other (line 486-489).
fetch_zdi_advisories(c, t, days, up) ==
    LET k == ZdiKey(days)
    IN  IF CacheHit(c, k, t) THEN AdapterHit(c, k, t)
        ELSE IF up.outcome = "ok"
             THEN AdapterFetched(c, k, t, ZdiNormalise(up.items, days), ZDI_CACHE_TTL)
        ELSE IF up.outcome = "malformed"
             THEN AdapterFetched(c, k, t, <<>>, ZDI_CACHE_TTL)
             ELSE AdapterEmpty(c, k, t)

-----------------------------------------------------------------------------
(* SpecAdapters: the three adapters called one at a time, as /api/status,  *)
(* /api/warm-cache and the start-up thread call them.                      *)

TickSeconds == 150     \* SpecAdapters, SpecQuery: the clock advances by this much
MaxTicks == 2          \* SpecAdapters, SpecQuery: and at most this often

AdapterFrame == UNCHANGED <<lock, pc, op, entry, now, ret, last, cvss_cache, epss_cache>>

\* what cache.set was handed for each key the cache holds
StoredAfter(st, c, writes) ==
    [k \in DOMAIN c |->
        IF k \in DOMAIN writes THEN writes[k]
        ELSE IF k \in DOMAIN st THEN st[k]
        ELSE c[k].value]

\* the value an adapter handed to cache.set under key k, if it did
Wrote(r, k) == IF r.wrote THEN k :> r.value ELSE EmptyDict

\* the handlers run one at a time on the event loop: a call is taken up when
\* the answer to the one before has been handed over
Idle == call = NoCall

Respond ==
    /\ ~Idle
    /\ call' = NoCall
    /\ UNCHANGED <<cache, stored, clock, cvss_cache, epss_cache>>
    /\ UNCHANGED <<lock, pc, op, entry, now, ret, last>>

\* one call of an adapter: what it leaves in the cache and what it answers
AdapterStep(name, days, k, up, r) ==
    /\ Idle
    /\ cache' = r.cache
    /\ stored' = StoredAfter(stored, r.cache, Wrote(r, k))
    /\ call' = [name |-> name, days |-> days, key |-> k, outcome |-> up.outcome,
                hit |-> ~r.called, value |-> r.value, raised |-> r.raised,
                wrote |-> r.wrote]
    /\ UNCHANGED <<clock, lock, pc, op, entry, now, ret, cvss_cache, epss_cache>>

AdapterCall(name, days, k, up, r) ==
    /\ AdapterStep(name, days, k, up, r)
    /\ UNCHANGED last

FetchKev(up) ==
    AdapterCall("fetch_kev_data", 0, "kev_data", up, fetch_kev_data(cache, clock, up))

FetchNvd(days, up) ==
    AdapterCall("fetch_recent_nvd_cves", days, NvdKey(days), up,
                fetch_recent_nvd_cves(cache, clock, days, up))

FetchZdi(days, up) ==
    AdapterCall("fetch_zdi_advisories", days, ZdiKey(days), up,
                fetch_zdi_advisories(cache, clock, days, up))

TickQ ==
    /\ Idle
    /\ clock + TickSeconds <= TickSeconds * MaxTicks
    /\ clock' = clock + TickSeconds
    /\ UNCHANGED <<cache, stored, call>>
    /\ AdapterFrame

\* the ttl an adapter hands to cache.set
AdapterTtl(name) ==
    IF name = "fetch_kev_data" THEN KEV_CACHE_TTL
    ELSE IF name = "fetch_recent_nvd_cves" THEN NVD_CACHE_TTL
    ELSE ZDI_CACHE_TTL

\* the cache.set that made each entry of the cache, with the adapter and the
\* window of the call it was part of
SetLog(l, name, days, k, r, t) ==
    [x \in DOMAIN r.cache |->
        IF x = k /\ r.wrote
        THEN [value |-> r.value, at |-> t, ttl |-> AdapterTtl(name),
              by |-> name, days |-> days]
        ELSE l[x]]

\* line 1491-1505: the calls of /api/warm-cache, one at a time
WarmCall(name, days, k, up, r) ==
    /\ AdapterStep(name, days, k, up, r)
    /\ last' = SetLog(last, name, days, k, r, clock)

WarmKev(up) ==
    WarmCall("fetch_kev_data", 0, "kev_data", up, fetch_kev_data(cache, clock, up))

WarmNvd(days, up) ==
    WarmCall("fetch_recent_nvd_cves", days, NvdKey(days), up,
             fetch_recent_nvd_cves(cache, clock, days, up))

WarmZdi(days, up) ==
    WarmCall("fetch_zdi_advisories", days, ZdiKey(days), up,
             fetch_zdi_advisories(cache, clock, days, up))

NextAdapters ==
    \/ \E up \in Answers(KevFeeds) \cup Failures : WarmKev(up)
    \/ \E days \in {7, 30}, up \in Answers(NvdFeeds) \cup Failures : WarmNvd(days, up)
    \/ \E days \in {14, 30}, up \in Answers(ZdiFeeds) \cup Failures : WarmZdi(days, up)
    \/ TickQ
    \/ Respond

SpecAdapters == Init /\ [][NextAdapters]_vars

\* C4: an adapter whose upstream call timed out, answered non-2xx or sent a
\* malformed payload returns an empty result and does not raise.
C4_AdaptersDegradeToEmpty ==
    (call.name \in {"fetch_kev_data", "fetch_recent_nvd_cves", "fetch_zdi_advisories"}
        /\ ~call.hit /\ call.outcome # "ok")
    => (~call.raised /\ call.value = <<>>)

AdapterNames == {"fetch_kev_data", "fetch_recent_nvd_cves", "fetch_zdi_advisories"}

\* a step that is one call of an adapter
AdapterAnswers == call = NoCall /\ call' # NoCall /\ call'.name \in AdapterNames

\* before the call, the cache holds an unexpired entry under k that a call of
\* the same adapter with the same window stored
LiveEntry(k, name, days) ==
    /\ k \in DOMAIN last
    /\ clock < last[k].at + last[k].ttl
    /\ last[k].by = name /\ last[k].days = days

\* C27: adapter results are cached per source and window: a call answers
\* from the cache only with the list a call of the same adapter with the same
\* window stored, and while that entry is unexpired every call of that
\* adapter and window answers with it and asks no upstream.
C27_CachedPerSourceAndWindow ==
    [][AdapterAnswers =>
          LET k == call'.key
              live == LiveEntry(k, call'.name, call'.days)
          IN  /\ call'.hit => (live /\ call'.value = last[k].value)
              /\ live => (call'.hit /\ call'.value = last[k].value /\ cache' = cache)]_vars

\* C27 witness: a call for the 14-day window is answered from the cache with
\* its own list while the entry of the 30-day window holds another one.
C27_Witness ==
    /\ call.name = "fetch_zdi_advisories" /\ call.days = 14 /\ call.hit
    /\ ZdiKey(30) \in DOMAIN cache
    /\ Unexpired(cache[ZdiKey(30)], clock)
    /\ cache[ZdiKey(30)].value # call.value

\* C29: a failed upstream fetch is never cached: after a call of an adapter
\* whose upstream request failed the cache has no entry under the adapter's
\* key, not even the expired one it had, and only a fetch that succeeded,
\* with no record at all if need be, has put its list into the cache.
C29_FailureNotCached ==
    (call.name \in AdapterNames /\ ~call.hit) =>
        /\ call.outcome # "ok" => (call.key \notin DOMAIN cache /\ ~call.wrote)
        /\ call.outcome = "ok" =>
               /\ call.wrote
               /\ call.key \in DOMAIN cache
               /\ cache[call.key] = NewEntry(call.value, AdapterTtl(call.name), clock)

-----------------------------------------------------------------------------
(* SpecWarm: fetch_recent_nvd_cves called by a request handler and by the   *)
(* thread startup_event starts (api_enhanced.py 1525-1546).  The adapter     *)
(* holds no lock of its own: cache.get, the upstream request and cache.set   *)
(* are three steps, and the other thread may run between any two of them.    *)
(* cache.get and cache.set are one step each, as the lock of SimpleCache     *)
(* makes them.                                                               *)

WarmDays(t) == IF t = "warm" THEN {30} ELSE {7, 30}

WarmFrame == UNCHANGED <<lock, entry, now, stored, call, cvss_cache, epss_cache>>

\* line 265-267: the call begins and builds its key
NvdBegin(t, days) ==
    /\ pc[t] = "idle"
    /\ pc' = [pc EXCEPT ![t] = "nvd_get"]
    /\ op' = [op EXCEPT ![t] = [name |-> "fetch_recent_nvd_cves", days |-> days,
                                key |-> NvdKey(days)]]
    /\ ret' = [ret EXCEPT ![t] = None]
    /\ UNCHANGED <<cache, clock, last>>
    /\ WarmFrame

\* line 271: if cached is not None (an empty list is an answer); the variant
\* is the test `if cached`
CachedIsTruthy(cached) == cached # None /\ cached # <<>>
CachedIsNotNone(cached) == cached # None

\* line 270-273: cached = cache.get(cache_key); if cached is not None: return
NvdCacheGet(t) ==
    /\ pc[t] = "nvd_get"
    /\ \E cached \in {CacheGet(cache, op[t].key, clock)} :
           /\ ret' = [ret EXCEPT ![t] = cached]
           /\ pc' = [pc EXCEPT ![t] = IF CachedIsNotNone(cached) THEN "nvd_hit"
                                       ELSE "nvd_request"]
    /\ cache' = CacheAfterGet(cache, op[t].key, clock)
    /\ UNCHANGED <<clock, op, last>>
    /\ WarmFrame

\* line 290-358: requests.get, raise_for_status, response.json and the loop
\* over the items; an exception leads to the except branch
NvdRequest(t, up) ==
    /\ pc[t] = "nvd_request"
    /\ IF up.outcome = "ok"
       THEN /\ ret' = [ret EXCEPT ![t] = NvdNormalise(up.items, op[t].days)]
            /\ pc' = [pc EXCEPT ![t] = "nvd_set"]
       ELSE /\ ret' = [ret EXCEPT ![t] = <<>>]
            /\ pc' = [pc EXCEPT ![t] = "nvd_except"]
    /\ UNCHANGED <<cache, clock, op, last>>
    /\ WarmFrame

\* line 360-363: cache.set(cache_key, cves, NVD_CACHE_TTL); return cves
NvdCacheSet(t) ==
    /\ pc[t] = "nvd_set"
    /\ cache' = CacheAfterSet(cache, op[t].key, ret[t], NVD_CACHE_TTL, clock)
    /\ last' = DictSet(last, op[t].key,
                       [value |-> ret[t], at |-> clock, ttl |-> NVD_CACHE_TTL,
                        by |-> t])
    /\ pc' = [pc EXCEPT ![t] = "idle"]
    /\ op' = [op EXCEPT ![t] = NoCall]
    /\ ret' = [ret EXCEPT ![t] = None]
    /\ UNCHANGED clock
    /\ WarmFrame

\* line 273 / 365-367: return cached; return []
NvdReturn(t) ==
    /\ pc[t] \in {"nvd_hit", "nvd_except"}
    /\ pc' = [pc EXCEPT ![t] = "idle"]
    /\ op' = [op EXCEPT ![t] = NoCall]
    /\ ret' = [ret EXCEPT ![t] = None]
    /\ UNCHANGED <<cache, clock, last>>
    /\ WarmFrame

NextWarm ==
    \/ \E t \in Threads : \E days \in WarmDays(t) : NvdBegin(t, days)
    \/ \E t \in Threads : NvdCacheGet(t)
    \/ \E t \in Threads, up \in Answers(NvdFeeds) \cup Failures : NvdRequest(t, up)
    \/ \E t \in Threads : NvdCacheSet(t)
    \/ \E t \in Threads : NvdReturn(t)
    \/ TickQ

SpecWarm == Init /\ [][NextWarm]_vars

\* thread t has issued the upstream request of the call it is in
Issued(t) == pc[t] \in {"nvd_set", "nvd_except"}

\* C30, as claimed: of two threads that fetch the same source and window
\* while the cache holds no unexpired entry, at most one issues the upstream
\* request.
C30_AtMostOneRequest ==
    \A t \in Threads, u \in Threads :
        (t # u /\ Issued(t) /\ Issued(u)) => op[t].key # op[u].key

\* the most recent cache.set under k is unexpired
StoredLive(k) == k \in DOMAIN last /\ clock < last[k].at + last[k].ttl

\* C30, amended: the cache spares the upstream request of a fetch whose
\* cache.get comes after another fetch of the same source and window has
\* stored its list and before that entry expires: it is served the stored
\* list and the cache stays as it is.  Every other fetch goes on to the
\* upstream, also while another thread's request for the same key is under
\* way, and the cache holds the list of the cache.set that came last.
C30_SparedAfterStore ==
    [][/\ \A t \in Threads :
              (pc[t] = "nvd_get" /\ pc'[t] # "nvd_get") =>
                  IF StoredLive(op[t].key)
                  THEN /\ pc'[t] = "nvd_hit"
                       /\ ret'[t] = last[op[t].key].value
                       /\ cache' = cache
                  ELSE /\ pc'[t] = "nvd_request"
                       /\ op[t].key \notin DOMAIN cache'
       /\ \A k \in DOMAIN cache :
              /\ k \in DOMAIN last
              /\ cache[k] = NewEntry(last[k].value, last[k].ttl, last[k].at)]_vars

\* C30 witness: a fetch is served from the cache the list the other thread
\* stored, while that thread has begun the next fetch of the same key.
C30_Witness ==
    \E t \in Threads, u \in Threads :
        /\ t # u
        /\ pc[t] = "nvd_hit"
        /\ StoredLive(op[t].key)
        /\ last[op[t].key].by = u
        /\ ret[t] = last[op[t].key].value
        /\ ret[t] # <<>>
        /\ pc[u] # "idle"
        /\ op[u].key = op[t].key

-----------------------------------------------------------------------------
(* Score lookups, api_enhanced.py 495-584 *)

\* for cve in cves[:20]
ENRICH_CAP == 20

\* f"cvss_{cve}" and f"epss_{cve}"
CatalogCvssKeys ==
    <<"cvss_CVE-2023-1001", "cvss_CVE-2023-1002", "cvss_CVE-2023-1003",
      "cvss_CVE-2023-1004", "cvss_CVE-2023-1005", "cvss_CVE-2023-1006",
      "cvss_CVE-2023-1007", "cvss_CVE-2023-1008", "cvss_CVE-2023-1009",
      "cvss_CVE-2023-1010", "cvss_CVE-2023-1011">>
CatalogEpssKeys ==
    <<"epss_CVE-2023-1001", "epss_CVE-2023-1002", "epss_CVE-2023-1003",
      "epss_CVE-2023-1004", "epss_CVE-2023-1005", "epss_CVE-2023-1006",
      "epss_CVE-2023-1007", "epss_CVE-2023-1008", "epss_CVE-2023-1009",
      "epss_CVE-2023-1010", "epss_CVE-2023-1011">>
CatalogIndex(cve) == CHOOSE i \in DOMAIN CatalogIds : CatalogIds[i] = cve
CvssKey(cve) ==
    IF cve = Id1 THEN "cvss_CVE-2024-0001"
    ELSE IF cve = Id2 THEN "cvss_CVE-2025-0002"
    ELSE CatalogCvssKeys[CatalogIndex(cve)]
EpssKey(cve) ==
    IF cve = Id1 THEN "epss_CVE-2024-0001"
    ELSE IF cve = Id2 THEN "epss_CVE-2025-0002"
    ELSE CatalogEpssKeys[CatalogIndex(cve)]

Elems(s) == {s[i] : i \in 1..Len(s)}

\* the cache.get calls of the first loop delete the expired entries they meet
AfterGets(c, keys, t) ==
    [k \in {x \in DOMAIN c : ~(x \in keys /\ ~Unexpired(c[x], t))} |-> c[k]]

\* the cache.set calls of the second loop
AfterSets(c, keyOf(_), vals, ttl, t) ==
    [k \in (DOMAIN c) \cup {keyOf(x) : x \in DOMAIN vals} |->
        IF \E x \in DOMAIN vals : keyOf(x) = k
        THEN NewEntry(vals[CHOOSE x \in DOMAIN vals : keyOf(x) = k], ttl, t)
        ELSE c[k]]

\* what the NVD answers to one request for one CVE: a base score, or a failure
\* (here a timeout; a status other than 200 and a payload without metrics
\* leave the score out in the same way)
CvssReplyOk(r) == r.outcome = "ok"

\* line 515-541: one request per uncached CVE; a failure is skipped
CvssFetched(toFetch, svc) ==
    {cve \in Elems(toFetch) : CvssReplyOk(svc[cve])}

fetch_cvss_data(c, t, cves, svc) ==
    LET head == Take(cves, ENRICH_CAP)
        isHit(cve) == CacheHit(c, CvssKey(cve), t)
        hits == {cve \in Elems(head) : isHit(cve)}
        miss(cve) == ~isHit(cve)
        toFetch == Filter(head, miss)
        got == CvssFetched(toFetch, svc)
        fetched == [cve \in got |-> svc[cve].score]
        c1 == AfterGets(c, {CvssKey(cve) : cve \in Elems(head)}, t)
    IN  [scores |-> [cve \in hits \cup got |->
                        IF cve \in hits THEN c[CvssKey(cve)].value ELSE fetched[cve]],
         cache |-> AfterSets(c1, CvssKey, fetched, CVSS_CACHE_TTL, t),
         lookups |-> toFetch,
         raised |-> FALSE]

\* line 501-541, the steps taken on one batch in their order: the cache reads
\* that hit, then one request per uncached CVE; nothing waits in between
CvssDataSteps(c, t, cves) ==
    LET head == Take(cves, ENRICH_CAP)
        isHit(cve) == CacheHit(c, CvssKey(cve), t)
        miss(cve) == ~isHit(cve)
    IN  Map(Filter(head, isHit), LAMBDA cve : [kind |-> "cached", cve |-> cve])
            \o Map(Filter(head, miss), LAMBDA cve : [kind |-> "request", cve |-> cve])

\* line 565-582: one request for all uncached CVEs; the items of the answer
\* are read in order, and an exception (the request, or an item that does not
\* parse) ends the reading
EpssItems(toFetch, svc) ==
    LET known(cve) == svc.item[cve] # NoneVal
    IN  Filter(toFetch, known)

EpssRead(items, svc) ==
    LET bad(i) == svc.item[items[i]] = NA
        firstBad == IF \E i \in 1..Len(items) : bad(i)
                    THEN CHOOSE i \in 1..Len(items) :
                             bad(i) /\ \A j \in 1..(i - 1) : ~bad(j)
                    ELSE Len(items) + 1
    IN  {items[i] : i \in 1..(firstBad - 1)}

fetch_epss_data(c, t, cves, svc) ==
    LET head == Take(cves, ENRICH_CAP)
        isHit(cve) == CacheHit(c, EpssKey(cve), t)
        hits == {cve \in Elems(head) : isHit(cve)}
        miss(cve) == ~isHit(cve)
        toFetch == Filter(head, miss)
        got == IF toFetch # <<>> /\ svc.outcome = "ok"
               THEN EpssRead(EpssItems(toFetch, svc), svc) ELSE {}
        fetched == [cve \in got |-> svc.item[cve]]
        c1 == AfterGets(c, {EpssKey(cve) : cve \in Elems(head)}, t)
    IN  [scores |-> [cve \in hits \cup got |->
                        IF cve \in hits THEN c[EpssKey(cve)].value ELSE fetched[cve]],
         cache |-> AfterSets(c1, EpssKey, fetched, EPSS_CACHE_TTL, t),
         lookups |-> IF toFetch = <<>> THEN <<>> ELSE <<toFetch>>,
         raised |-> FALSE]

-----------------------------------------------------------------------------
(* enrich_vulnerability_data, api_enhanced.py 586-642 *)

\* vuln[f] not in [0, None, 'N/A']
HasScore(vuln, f) == f \in DOMAIN vuln /\ vuln[f] \notin {0, NoneVal, NA}

\* line 613-620: float(x) if x != 'N/A' else 0, and 0 when float() raises
AsFloat(x) == IF x \in {NA, NoneVal} THEN 0 ELSE x

\* line 622-633
PriorityBand(cvss, epss) ==
    IF cvss >= 90 /\ epss >= 10 THEN "URGENT"
    ELSE IF cvss >= 90 THEN "URGENT"
    ELSE IF cvss >= 70 /\ epss >= 5 THEN "HIGH"
    ELSE IF cvss >= 70 THEN "HIGH"
    ELSE IF cvss >= 40 THEN "MEDIUM"
    ELSE "LOW"

\* line 640: the sort key
CvssSortKey(x) ==
    IF "cvss_score" \in DOMAIN x /\ x.cvss_score >= 0 THEN x.cvss_score ELSE 0

EnrichOne(vuln, cvss_scores, epss_scores) ==
    LET cve == Get(vuln, "cveID", "")
        cvss == IF HasScore(vuln, "cvss_score") THEN vuln.cvss_score
                ELSE Get(cvss_scores, cve, NA)
        epss == IF HasScore(vuln, "epss_score") THEN vuln.epss_score
                ELSE Get(epss_scores, cve, NA)
        with1 == DictSet(vuln, "cvss_score", cvss)
        with2 == DictSet(with1, "epss_score", epss)
    IN  DictSet(with2, "priority_label", PriorityBand(AsFloat(cvss), AsFloat(epss)))

enrich_vulnerability_data(vulnerabilities, cvss_scores, epss_scores) ==
    LET one(v) == EnrichOne(v, cvss_scores, epss_scores)
    IN  SortDesc(Map(vulnerabilities, one), CvssSortKey)

\* line 644-655
calculate_priority_label(cvss, epss) ==
    IF cvss >= 0 /\ epss >= 0
    THEN IF cvss >= 90 /\ epss >= 10 THEN "URGENT"
         ELSE IF cvss >= 70 /\ epss >= 5 THEN "HIGH"
         ELSE IF cvss >= 40 THEN "MEDIUM"
         ELSE "LOW"
    ELSE "UNKNOWN"

-----------------------------------------------------------------------------
(* cvss_enricher.py and epss_enricher.py.  Their records carry the CVE     *)
(* under 'cve_id'; their caches are module dictionaries without expiry.    *)

\* cvss_enricher.py 57-62, the severity of a base score
SeverityOf(score) ==
    IF score >= 90 THEN "CRITICAL"
    ELSE IF score >= 70 THEN "HIGH"
    ELSE IF score >= 40 THEN "MEDIUM"
    ELSE "LOW"

\* cvss_enricher.py 88, 92
CvssDefault == [cvss_score |-> 0, cvss_severity |-> "UNKNOWN"]

\* cvss_enricher.py 14-92
fetch_cvss_for_cve(cc, cve_id, svc) ==
    IF cve_id \in DOMAIN cc THEN [result |-> cc[cve_id], cache |-> cc, called |-> FALSE]
    ELSE IF CvssReplyOk(svc[cve_id])
         THEN LET result == [cvss_score |-> svc[cve_id].score,
                             cvss_severity |-> SeverityOf(svc[cve_id].score)]
              IN  [result |-> result, cache |-> DictSet(cc, cve_id, result), called |-> TRUE]
         ELSE [result |-> CvssDefault, cache |-> cc, called |-> TRUE]

\* the module cache after the first n records of the batch were handled
RECURSIVE CvssCacheAfter(_, _, _, _)
CvssCacheAfter(cc, kevs, n, svc) ==
    IF n = 0 THEN cc
    ELSE LET before == CvssCacheAfter(cc, kevs, n - 1, svc)
         IN  fetch_cvss_for_cve(before, Get(kevs[n], "cve_id", ""), svc).cache

\* cvss_enricher.py 95-123
enrich_kevs_with_cvss(cc, kevs, max_items, svc) ==
    LET head == Take(kevs, max_items)
        step(i) == fetch_cvss_for_cve(CvssCacheAfter(cc, head, i - 1, svc),
                                      Get(head[i], "cve_id", ""), svc)
        one(i) == DictSet(DictSet(head[i], "cvss_score", step(i).result.cvss_score),
                          "cvss_severity", step(i).result.cvss_severity)
        asked == {i \in 1..Len(head) : step(i).called}
    IN  [value |-> [i \in 1..Len(head) |-> one(i)],
         cache |-> CvssCacheAfter(cc, head, Len(head), svc),
         lookups |-> FilterIdx([i \in 1..Len(head) |-> Get(head[i], "cve_id", "")], asked, 1),
         sleeps |-> IF Len(head) > 0 THEN Len(head) - 1 ELSE 0]

\* cvss_enricher.py 102-112, the steps taken on one batch in their order:
\* time.sleep(0.7) before every record but the first, then the record's
\* score from the module cache or from a request
CvssEnricherSteps(cc, kevs, max_items, svc) ==
    LET head == Take(kevs, max_items)
        cveOf(i) == Get(head[i], "cve_id", "")
        called(i) == fetch_cvss_for_cve(CvssCacheAfter(cc, head, i - 1, svc),
                                        cveOf(i), svc).called
        RECURSIVE from(_)
        from(i) ==
            IF i > Len(head) THEN <<>>
            ELSE (IF i > 1 THEN <<[kind |-> "sleep", cve |-> cveOf(i)]>> ELSE <<>>)
                 \o <<[kind |-> IF called(i) THEN "request" ELSE "cached", cve |-> cveOf(i)]>>
                 \o from(i + 1)
    IN  from(1)

\* epss_enricher.py 121
EpssDefault == [epss_score |-> 0, epss_percentile |-> 0]

\* epss_enricher.py 57-94: the items are cached one by one until one of them
\* does not parse
fetch_epss_bulk(ec, cve_ids, svc) ==
    LET got == IF svc.outcome = "ok" THEN EpssRead(EpssItems(cve_ids, svc), svc) ELSE {}
    IN  [k \in (DOMAIN ec) \cup got |->
            IF k \in got THEN [epss_score |-> svc.item[k], epss_percentile |-> svc.item[k]]
            ELSE ec[k]]

\* epss_enricher.py 97-135
enrich_kevs_with_epss(ec, kevs, max_items, svc) ==
    LET head == Take(kevs, max_items)
        ids == [i \in 1..Len(head) |-> Get(head[i], "cve_id", "")]
        uncachedId(x) == x # "" /\ x \notin DOMAIN ec
        uncached_cves == Filter(ids, uncachedId)
        ec1 == IF uncached_cves # <<>> THEN fetch_epss_bulk(ec, uncached_cves, svc) ELSE ec
        data(i) == Get(ec1, ids[i], EpssDefault)
        cvss(i) == Get(head[i], "cvss_score", 0)
        one(i) == DictSet(DictSet(DictSet(head[i], "epss_score", data(i).epss_score),
                                  "epss_percentile", data(i).epss_percentile),
                          "priority_score",
                          IF cvss(i) > 0 THEN cvss(i) * data(i).epss_score ELSE 0)
    IN  [value |-> [i \in 1..Len(head) |-> one(i)],
         cache |-> ec1,
         lookups |-> IF uncached_cves = <<>> THEN <<>> ELSE <<uncached_cves>>,
         sleeps |-> IF uncached_cves = <<>> THEN 0 ELSE 1]

-----------------------------------------------------------------------------
(* SpecEnrich: the enrichment step of the handlers (api_enhanced.py        *)
(* 1023-1032) and the two on-demand enrichers, called on batches of records *)
(* with the score services answering or failing per CVE.                   *)

MaxItems == 2          \* SpecEnrich: max_items ranges over 1..MaxItems

\* the NVD's answer per CVE: every lookup succeeds, or the one for Id1 fails
CvssUp == [i \in Ids |-> [outcome |-> "ok", score |-> 75]]
CvssId1Down == [i \in Ids |-> IF i = Id1 THEN [outcome |-> "timeout", score |-> 0]
                                       ELSE [outcome |-> "ok", score |-> 75]]
CvssServices == {CvssUp, CvssId1Down}

\* the FIRST.org answer: per CVE a percentage, NA for an item that does not
\* parse, NoneVal for a CVE the answer leaves out
EpssUp == [outcome |-> "ok", item |-> [i \in Ids |-> 12]]
EpssId1Malformed == [outcome |-> "ok", item |-> [i \in Ids |-> IF i = Id1 THEN NA ELSE 12]]
EpssDown == [outcome |-> "timeout", item |-> [i \in Ids |-> NoneVal]]
EpssServices == {EpssUp, EpssId1Malformed, EpssDown}

\* records as the handlers hand them to enrichment
Marked(k) == DictSet(k, "source", "CISA KEV")
LongBatch == [i \in 1..(ENRICH_CAP + 1) |->
                 IF i <= ENRICH_CAP THEN Marked(K1) ELSE Marked(K2)]
Batches == {<<Marked(K1), ZdiEntry(Z2)>>,
            <<ZdiEntry(Z1), NvdEntry(N1), Marked(K2)>>,
            LongBatch}

\* records of the on-demand enrichers
E1 == [cve_id |-> Id1]
E2 == [cve_id |-> Id2, cvss_score |-> 98, epss_score |-> 50]
KevBatches == {<<E1, E2>>, <<E2, E1, E1>>}

EnrichFrame == UNCHANGED <<lock, clock, pc, op, entry, now, ret, last, stored>>

\* api_enhanced.py 1023-1032
EnrichBatch(vulns, cvssSvc, epssSvc) ==
    LET cves == Map(vulns, LAMBDA v : Get(v, "cveID", ""))
    IN  /\ Idle
        /\ \E c1 \in {fetch_cvss_data(cache, clock, cves, cvssSvc)} :
           \E e1 \in {fetch_epss_data(c1.cache, clock, cves, epssSvc)} :
               /\ cache' = e1.cache
               /\ call' = [name |-> "enrich_vulnerability_data", input |-> vulns,
                           value |-> enrich_vulnerability_data(vulns, c1.scores, e1.scores),
                           cap |-> ENRICH_CAP,
                           cvss_lookups |-> c1.lookups, epss_lookups |-> e1.lookups,
                           cvss_scores |-> c1.scores, epss_scores |-> e1.scores,
                           cvssSvc |-> cvssSvc, epssSvc |-> epssSvc,
                           steps |-> CvssDataSteps(cache, clock, cves)]
        /\ UNCHANGED <<cvss_cache, epss_cache>>
        /\ EnrichFrame

EnrichKevsCvss(kevs, max_items, svc) ==
    /\ Idle
    /\ \E r \in {enrich_kevs_with_cvss(cvss_cache, kevs, max_items, svc)} :
        /\ cvss_cache' = r.cache
        /\ call' = [name |-> "enrich_kevs_with_cvss", input |-> kevs,
                    value |-> r.value, cap |-> max_items,
                    cvss_lookups |-> r.lookups, cached |-> DOMAIN cvss_cache,
                    cvssSvc |-> svc, sleeps |-> r.sleeps,
                    steps |-> CvssEnricherSteps(cvss_cache, kevs, max_items, svc)]
        /\ UNCHANGED <<cache, epss_cache>>
        /\ EnrichFrame

EnrichKevsEpss(kevs, max_items, svc) ==
    /\ Idle
    /\ \E r \in {enrich_kevs_with_epss(epss_cache, kevs, max_items, svc)} :
        /\ epss_cache' = r.cache
        /\ call' = [name |-> "enrich_kevs_with_epss", input |-> kevs,
                    value |-> r.value, cap |-> max_items,
                    epss_lookups |-> r.lookups, cached |-> DOMAIN epss_cache,
                    epssSvc |-> svc, sleeps |-> r.sleeps]
        /\ UNCHANGED <<cache, cvss_cache>>
        /\ EnrichFrame

NextEnrich ==
    \/ \E vulns \in Batches, cs \in CvssServices, es \in EpssServices :
           EnrichBatch(vulns, cs, es)
    \/ \E kevs \in KevBatches, m \in 1..MaxItems, cs \in CvssServices :
           EnrichKevsCvss(kevs, m, cs)
    \/ \E kevs \in KevBatches, m \in 1..MaxItems, es \in EpssServices :
           EnrichKevsEpss(kevs, m, es)
    \/ Respond

SpecEnrich == Init /\ [][NextEnrich]_vars

\* a score a record carries from its source: the key is there and holds a
\* number other than the placeholder 0
Reported(rec, f) == f \in DOMAIN rec /\ rec[f] > 0

\* the key is missing or holds None or 'N/A'
Unset(rec, f) == f \notin DOMAIN rec \/ rec[f] \in {NA, NoneVal}

EnrichCalls == {"enrich_vulnerability_data", "enrich_kevs_with_cvss", "enrich_kevs_with_epss"}

\* the records of the output that come from input record i
OutputsOf(i) ==
    IF call.name = "enrich_vulnerability_data"
    THEN {j \in 1..Len(call.value) :
             \A f \in DOMAIN call.input[i] \ {"cvss_score", "epss_score"} :
                 f \in DOMAIN call.value[j] /\ call.value[j][f] = call.input[i][f]}
    ELSE {j \in 1..Len(call.value) : j = i}

\* C8: a record that enters enrichment with a source-reported severity score
\* (or exploit probability) leaves it with the same score, whatever the
\* lookup returned, in enrich_vulnerability_data, enrich_kevs_with_cvss and
\* enrich_kevs_with_epss.
C8_EnrichmentKeepsReportedScores ==
    call.name \in EnrichCalls =>
        \A i \in 1..Len(call.input) :
            \A f \in {"cvss_score", "epss_score"} :
                Reported(call.input[i], f) =>
                    \A j \in OutputsOf(i) : call.value[j][f] = call.input[i][f]

\* C9: lookups are issued only for the first N records of the batch, and
\* every record beyond the first N is still in the output, its severity
\* score unset when it carried none.
C9_BoundedWithoutDropping ==
    call.name \in EnrichCalls =>
        LET idOf(r) == IF "cveID" \in DOMAIN r THEN r.cveID ELSE r.cve_id
            firstN == {idOf(call.input[i]) :
                          i \in 1..(IF call.cap < Len(call.input)
                                    THEN call.cap ELSE Len(call.input))}
            asked == IF "cvss_lookups" \in DOMAIN call
                     THEN Elems(call.cvss_lookups)
                     ELSE UNION {Elems(q) : q \in Elems(call.epss_lookups)}
        IN  /\ asked \subseteq firstN
            /\ \A i \in 1..Len(call.input) :
                   i > call.cap =>
                       /\ OutputsOf(i) # {}
                       /\ Unset(call.input[i], "cvss_score") =>
                              \A j \in OutputsOf(i) : Unset(call.value[j], "cvss_score")

\* C10: a CVE whose lookup fails is left without a numeric score, every
\* other CVE of the batch whose lookup succeeds receives its score, and the
\* call returns.
C10_LookupFailureIsolated ==
    /\ call.name = "enrich_vulnerability_data" =>
           /\ \A cve \in Elems(call.cvss_lookups) :
                  IF call.cvssSvc[cve].outcome = "ok"
                  THEN cve \in DOMAIN call.cvss_scores
                       /\ call.cvss_scores[cve] = call.cvssSvc[cve].score
                  ELSE cve \notin DOMAIN call.cvss_scores
           /\ \A q \in Elems(call.epss_lookups) : \A cve \in Elems(q) :
                  IF call.epssSvc.outcome = "ok" /\ call.epssSvc.item[cve] >= 0
                  THEN cve \in DOMAIN call.epss_scores
                       /\ call.epss_scores[cve] = call.epssSvc.item[cve]
                  ELSE cve \notin DOMAIN call.epss_scores
    /\ call.name = "enrich_kevs_with_cvss" =>
           \A i \in 1..Len(call.value) :
               LET cve == call.input[i].cve_id
               IN  cve \notin call.cached =>
                       IF call.cvssSvc[cve].outcome = "ok"
                       THEN call.value[i].cvss_score = call.cvssSvc[cve].score
                       ELSE Unset(call.value[i], "cvss_score")

\* C11: in the steps of one enrichment batch a delay lies between every two
\* requests to the score service, and no delay is taken ahead of a CVE whose
\* score comes from the cache.
C11_DelayBetweenLookups ==
    call.name \in {"enrich_vulnerability_data", "enrich_kevs_with_cvss"} =>
        /\ \A i, j \in 1..Len(call.steps) :
               (i < j /\ call.steps[i].kind = "request" /\ call.steps[j].kind = "request")
                   => \E k \in (i + 1)..(j - 1) : call.steps[k].kind = "sleep"
        /\ \A i \in 1..(Len(call.steps) - 1) :
               call.steps[i].kind = "sleep" => call.steps[i + 1].kind # "cached"

-----------------------------------------------------------------------------
(* SpecPriority: the two priority functions on every pair of scores.       *)
(* enrich_vulnerability_data is given one record, which carries each score *)
(* as a number, as None, as 'N/A' or not at all, and the answers of the    *)
(* lookups; calculate_priority_label is given the two values directly.     *)

MaxCvss == 100         \* SpecPriority: severity scores range over 0..MaxCvss (tenths)
MaxEpss == 100         \* SpecPriority: exploit probabilities over 0..MaxEpss (percent)

\* the record has no such key
Absent == -3

CvssValues == {Absent, NoneVal, NA} \cup 0..MaxCvss
EpssValues == {Absent, NoneVal, NA} \cup 0..MaxEpss

WithScore(rec, f, v) == IF v = Absent THEN rec ELSE DictSet(rec, f, v)

ScoredRecord(s, e) ==
    WithScore(WithScore([cveID |-> Id1], "cvss_score", s), "epss_score", e)

\* what the lookups found for the record's CVE
CvssLookups == {EmptyDict, Id1 :> 0, Id1 :> 75}
EpssLookups == {EmptyDict, Id1 :> 12}

PriorityFrame == UNCHANGED <<cache, lock, clock, pc, op, entry, now, ret, last, stored,
                             cvss_cache, epss_cache>>

BandRecord(vuln, cvss_scores, epss_scores) ==
    /\ Idle
    /\ call' = [name |-> "enrich_vulnerability_data", input |-> <<vuln>>,
                value |-> enrich_vulnerability_data(<<vuln>>, cvss_scores, epss_scores)]
    /\ PriorityFrame

LabelScores(cvss, epss) ==
    /\ Idle
    /\ call' = [name |-> "calculate_priority_label", cvss |-> cvss, epss |-> epss,
                label |-> calculate_priority_label(cvss, epss)]
    /\ PriorityFrame

NextPriority ==
    \/ /\ Idle
       /\ \E s \in CvssValues, e \in EpssValues, cs \in CvssLookups, es \in EpssLookups :
              BandRecord(ScoredRecord(s, e), cs, es)
    \/ /\ Idle
       /\ \E s \in CvssValues \ {Absent}, e \in EpssValues \ {Absent} : LabelScores(s, e)
    \/ Respond

SpecPriority == Init /\ [][NextPriority]_vars

\* the label the severity score alone stands for
BandOf(S) ==
    IF S >= 90 THEN "URGENT"
    ELSE IF S >= 70 THEN "HIGH"
    ELSE IF S >= 40 THEN "MEDIUM"
    ELSE "LOW"

\* C12: a record that leaves enrich_vulnerability_data with its severity
\* score unset is labelled UNKNOWN, and calculate_priority_label answers
\* UNKNOWN for a severity score of None or 'N/A', whatever the exploit
\* probability is.
C12_UnsetScoreIsUnknown ==
    /\ call.name = "enrich_vulnerability_data" =>
           \A i \in 1..Len(call.value) :
               Unset(call.value[i], "cvss_score")
                   => call.value[i].priority_label = "UNKNOWN"
    /\ call.name = "calculate_priority_label" =>
           (call.cvss \in {NA, NoneVal} => call.label = "UNKNOWN")

\* C13: for a numeric severity score S and a numeric exploit probability E
\* the label is URGENT from 9.0, HIGH from 7.0, MEDIUM from 4.0 and LOW
\* below, whatever E is, in enrich_vulnerability_data and in
\* calculate_priority_label.
C13_BandsBySeverityAlone ==
    /\ call.name = "enrich_vulnerability_data" =>
           \A i \in 1..Len(call.value) :
               (call.value[i].cvss_score >= 0 /\ call.value[i].epss_score >= 0)
                   => call.value[i].priority_label = BandOf(call.value[i].cvss_score)
    /\ call.name = "calculate_priority_label" =>
           ((call.cvss >= 0 /\ call.epss >= 0) => call.label = BandOf(call.cvss))

-----------------------------------------------------------------------------
(* The request handlers, api_enhanced.py 858-1188 and 1303-1452.  The text *)
(* of a request is the set of the trigger words it contains; the text of a *)
(* record (name and description) is the set of words under 'text'.         *)

ShortWindowWords == {"latest", "zero-day"}
TopWords == {"top", "highest", "worst", "critical"}
ZeroDayWords == {"zero-day"}
RecentWords == {"recent", "new", "latest", "emerging"}

\* str.lower() on the names the feeds carry
Lower(str) ==
    CASE str = "Microsoft" -> "microsoft"
      [] str = "Cisco" -> "cisco"
      [] str = "Various" -> "various"
      [] str = "Unknown" -> "unknown"
      [] str = "Known" -> "known"
      [] OTHER -> str

TextOf(vuln) == Get(vuln, "text", {})

\* line 39-111: the intent the model answered, or the fallback when the call
\* or the parsing of its answer fails
FallbackIntent ==
    [data_sources |-> {"KEV", "NVD", "ZDI"}, search_keywords |-> {},
     year |-> 0, vendor |-> "", limit |-> NoneVal, sort_by |-> "none",
     shape |-> "intent"]

\* line 76-111.  The call raises ("error"), json.loads raises ("not_json"),
\* or the value it returns has no get ("not_object", line 97): the except
\* branch answers.  Any JSON object is returned as it is; shape tells what
\* the object has where an intent has its filters object, its list of
\* sources and its year string.
parse_query_with_claude(reply) ==
    IF reply.outcome = "ok" THEN reply.intent ELSE FallbackIntent

\* line 872-878: 'in' on a data_sources that is no container and get on a
\* filters that is no dict raise before any source is fetched
IntentRaises(intent) == intent.shape \in {"sources_not_list", "filters_null"}

\* the sources the handler gets to fetch
FetchedSources(intent) == IF IntentRaises(intent) THEN {} ELSE intent.data_sources

\* line 989-990: str.startswith raises on a year that is no string, when
\* there is a record to test
YearRaises(byVendor, intent) ==
    intent.shape = "year_number" /\ intent.year # 0 /\ byVendor # <<>>

\* line 113-133
smart_keyword_search(vulnerabilities, keywords) ==
    IF keywords = {} THEN vulnerabilities
    ELSE Filter(vulnerabilities, LAMBDA v : TextOf(v) \cap keywords # {})

\* line 657-688, with the vendors the feeds name
KnownVendors == <<"Microsoft", "Cisco">>
extract_vendor_from_cve(vuln) ==
    LET vendor == Get(vuln, "vendorProject", "")
        named == {i \in 1..Len(KnownVendors) : Lower(KnownVendors[i]) \in TextOf(vuln)}
    IN  IF Lower(vendor) \notin {"various", "unknown", "n/a", ""} THEN vendor
        ELSE IF named # {}
             THEN KnownVendors[CHOOSE i \in named : \A j \in named : i <= j]
             ELSE "Unknown"

\* line 690-716
classify_vulnerability_type(vuln) ==
    LET found == TextOf(vuln) \cap {"rce", "sql injection", "xss"}
    IN  IF found = {} THEN {"other"} ELSE found

\* line 718-742
extract_filters_from_query(words) ==
    [vendor |-> IF "microsoft" \in words THEN "microsoft"
                ELSE IF "cisco" \in words THEN "cisco" ELSE "",
     vuln_type |-> IF "rce" \in words THEN "rce"
                   ELSE IF "sql injection" \in words THEN "sql"
                   ELSE IF "xss" \in words THEN "xss" ELSE ""]

\* line 749-766: the test one record of the catalogue has to pass
KevPasses(vuln, vendor, date_filter, query_text) ==
    /\ vendor = "" \/ Lower(vendor) = Lower(Get(vuln, "vendorProject", ""))
    /\ date_filter = 0 \/ Get(vuln, "dateAdded", 0) \div 10000 = date_filter
    /\ query_text = "" \/ query_text \in TextOf(vuln)

\* line 744-768: a new list of the same record objects
filter_vulnerabilities(kev_data, vendor, date_filter, query_text) ==
    Filter(kev_data, LAMBDA v : KevPasses(v, vendor, date_filter, query_text))

\* line 896-897 and 1319-1320: the loop assigns vuln['source'] on the records
\* of the filtered list, which are the records of the cached catalogue
MarkCached(c, k, passes(_)) ==
    IF k \in DOMAIN c
    THEN [c EXCEPT ![k].value = Map(@, LAMBDA v : IF passes(v) THEN Marked(v) ELSE v)]
    ELSE c

\* the sort keys of line 929, 951, 963, 1005
DateKey(x) == Get(x, "dateAdded", 0)

\* line 951 and 963: list.sort on the list the adapter returned, which is the
\* cached list unless the adapter answered with a fresh [] after a failure
SortCached(r, k) ==
    IF (r.wrote \/ ~r.called) /\ k \in DOMAIN r.cache
    THEN [r.cache EXCEPT ![k].value = SortDesc(@, DateKey)]
    ELSE r.cache

\* 'and limit': None and 0 are false
Truthy(limit) == limit # NoneVal /\ limit # 0

\* a source the intent leaves out is not fetched
AdapterSkipped(c) ==
    [value |-> <<>>, raised |-> FALSE, cache |-> c, called |-> FALSE, wrote |-> FALSE]

\* seq[a:b] with 0 <= a
Slice(s, a, b) ==
    LET hi == IF b < Len(s) THEN b ELSE Len(s)
    IN  IF a >= hi THEN <<>> ELSE SubSeq(s, a + 1, hi)

Min(a, b) == IF a < b THEN a ELSE b

\* line 934-941: the windows of the NVD and the ZDI fetch
NvdDays(req) == IF req.words \cap ShortWindowWords # {} THEN 7 ELSE 30
ZdiDays(req) == IF req.words \cap ShortWindowWords # {} THEN 14 ELSE 30

\* What the handler holds after it dealt with one source: the adapter's
\* result r, the cache, and the list that goes into the merge.

\* line 882-884: a source the intent leaves out
SkippedStage(c) == [r |-> AdapterSkipped(c), cache |-> c, list |-> <<>>]

\* line 886-931 (and 1313-1320, where there is no cut-off and no early limit)
KevStage(c, t, req, limit, alone, up) ==
    LET rk == fetch_kev_data(c, t, up)
        marked == Map(filter_vulnerabilities(rk.value, req.vendor, req.date_filter, ""),
                      Marked)
        recent == IF req.cutoff # 0
                  THEN Filter(marked, LAMBDA v : Get(v, "dateAdded", 0) >= req.cutoff)
                  ELSE marked
    IN  [r |-> rk,
         cache |-> IF rk.raised THEN rk.cache
                   ELSE MarkCached(rk.cache, "kev_data",
                                   LAMBDA v : KevPasses(v, req.vendor, req.date_filter, "")),
         list |-> IF alone /\ Truthy(limit)
                  THEN Take(SortDesc(recent, DateKey), limit) ELSE recent]

\* line 943-953 and 955-965: r is what the adapter answered, k its cache key
ListStage(r, k, alone, limit) ==
    IF alone /\ Truthy(limit)
    THEN [r |-> r, cache |-> SortCached(r, k),
          list |-> Take(SortDesc(r.value, DateKey), limit)]
    ELSE [r |-> r, cache |-> r.cache, list |-> r.value]

\* line 975-991
QueryFilters(merged, intent) ==
    LET byKeyword == smart_keyword_search(merged, intent.search_keywords)
        byVendor == IF intent.vendor # ""
                    THEN Filter(byKeyword, LAMBDA v :
                                    Lower(intent.vendor) = Lower(extract_vendor_from_cve(v)))
                    ELSE byKeyword
    IN  IF intent.year # 0
        THEN Filter(byVendor, LAMBDA v : Get(v, "dateAdded", 0) \div 10000 = intent.year)
        ELSE byVendor

\* line 1003-1018
QueryOrder(passing, intent, req) ==
    LET sorted == IF intent.sort_by = "date" THEN SortDesc(passing, DateKey)
                  ELSE IF intent.sort_by = "cvss" \/ req.words \cap TopWords # {}
                       THEN SortDesc(passing, CvssSortKey)
                       ELSE passing
    IN  IF intent.limit # NoneVal THEN Take(sorted, intent.limit) ELSE sorted

\* line 1340-1376
ExportFilters(zdi, nvd, kev, req) ==
    LET filters == extract_filters_from_query(req.words)
        merged == zdi \o nvd \o kev
        byVendor == IF filters.vendor # ""
                    THEN Filter(merged, LAMBDA v :
                                    filters.vendor = Lower(extract_vendor_from_cve(v)))
                    ELSE merged
        byType == IF filters.vuln_type # ""
                  THEN Filter(byVendor, LAMBDA v :
                                  \E vt \in classify_vulnerability_type(v) :
                                      vt = filters.vuln_type
                                      \/ (filters.vuln_type = "sql" /\ vt = "sql injection"))
                  ELSE byVendor
        ransomware == Filter(byType, LAMBDA v :
                                 Lower(Get(v, "knownRansomwareCampaignUse", ""))
                                     \in {"known", "yes", "true", "y"})
    IN  IF "ransomware" \in req.words
        THEN (IF Len(ransomware) < 10 THEN kev ELSE ransomware)
        ELSE IF req.words \cap ZeroDayWords # {}
             THEN SortDesc(zdi \o nvd, DateKey)
        ELSE IF req.words \cap RecentWords # {}
             THEN SortDesc(merged, DateKey)
        ELSE byType

\* line 1023-1032 and 1388-1398
Enriched(c, t, filtered_data, svc) ==
    LET cves == Map(filtered_data, LAMBDA v : v.cveID)
        cv == fetch_cvss_data(c, t, cves, svc.cvss)
        ep == fetch_epss_data(cv.cache, t, cves, svc.epss)
    IN  [cache |-> ep.cache,
         data |-> enrich_vulnerability_data(filtered_data, cv.scores, ep.scores)]

\* line 1044-1048 and 1176-1182
Paged(enriched_data, req) ==
    LET total_count == Len(enriched_data)
    IN  [page_data |-> Slice(enriched_data, (req.page - 1) * req.per_page,
                             Min(req.page * req.per_page, total_count)),
         count |-> Min(req.per_page, total_count - (req.page - 1) * req.per_page),
         total_count |-> total_count,
         current_page |-> req.page,
         total_pages |-> (total_count + req.per_page - 1) \div req.per_page]

NoPage ==
    [page_data |-> <<>>, count |-> 0, total_count |-> 0, current_page |-> 0,
     total_pages |-> 0]

\* what the adapters handed to cache.set during one request
Writes(kev, zdi, nvd, req) ==
    Wrote(kev.r, "kev_data") @@ Wrote(zdi.r, ZdiKey(ZdiDays(req)))
        @@ Wrote(nvd.r, NvdKey(NvdDays(req)))

-----------------------------------------------------------------------------
(* SpecQuery: requests to /api/query and /api/export-csv, the adapter calls *)
(* of the start-up thread, and the passing of time.  An upstream is asked   *)
(* only by an adapter that is called and misses the cache.                  *)

NotCalled == [outcome |-> "none", items |-> <<>>]

KevUpstreams == Answers(KevFeeds) \cup [outcome : {"timeout"}, items : {<<>>}]
ZdiUpstreams == Answers(ZdiFeeds \ {<<>>}) \cup [outcome : {"timeout"}, items : {<<>>}]
NvdUpstreams == Answers(NvdFeeds) \cup [outcome : {"timeout"}, items : {<<>>}]

Asked(needed, k, upstreams) ==
    IF needed /\ ~CacheHit(cache, k, clock) THEN upstreams ELSE {NotCalled}

\* the score services are out of reach of the handlers here; SpecEnrich has
\* their answers
CvssDown == [i \in Ids |-> [outcome |-> "timeout", score |-> 0]]
QueryScoreServices == {[cvss |-> CvssDown, epss |-> EpssDown]}

Intents ==
    [data_sources : {{"KEV"}, {"ZDI"}, {"NVD"}, {"KEV", "ZDI"}, {"KEV", "NVD", "ZDI"}},
     search_keywords : {{}}, year : {0}, vendor : {""},
     limit : {NoneVal, 1}, sort_by : {"none", "date", "cvss"}, shape : {"intent"}]

\* intents with keywords, a vendor and a year
FilterIntents ==
    {[FallbackIntent EXCEPT !.search_keywords = {"rce"}],
     [FallbackIntent EXCEPT !.vendor = "cisco"],
     [FallbackIntent EXCEPT !.search_keywords = {"rce"}, !.vendor = "microsoft",
                            !.year = 2024]}

\* JSON objects that are no intents: "filters": null, "data_sources": null,
\* "year": 2025
MalformedIntents ==
    {[FallbackIntent EXCEPT !.shape = "filters_null"],
     [FallbackIntent EXCEPT !.shape = "sources_not_list"],
     [FallbackIntent EXCEPT !.shape = "year_number", !.year = 2025]}

ParseReplies ==
    [outcome : {"ok"}, intent : Intents \cup FilterIntents \cup MalformedIntents]
        \cup [outcome : {"error", "not_json", "not_object"}, intent : {FallbackIntent}]

QueryRequests ==
    [vendor : {""}, date_filter : {0}, words : {{}}, cutoff : {0},
     page : {1}, per_page : {10}]
ExportRequests ==
    [vendor : {""}, date_filter : {0},
     words : {{}, {"ransomware"}, {"recent"}, {"microsoft", "ransomware"}, {"cisco", "rce"}},
     cutoff : {0}, page : {1}, per_page : {10}]

Narratives == {"ok", "error"}

Failed(up) == {s \in DOMAIN up : up[s].outcome \notin {"ok", "none"}}

\* line 858-1188.  The handler raises (and answers 500) when the intent has
\* not the shape it reads (872-879), when fetch_kev_data raised (889,
\* 1184-1185), when the year filter raises (990), and when the page
\* arithmetic or the analysis call raises (1045, 1156, 1186-1188); it answers
\* 404 when nothing passes the filters (997-998).
query(req, reply, up, svc, narrative) ==
    /\ Idle
    /\ \E intent \in {parse_query_with_claude(reply)} :
       \E sources \in {FetchedSources(intent)} :
       \E kev \in {IF "KEV" \in sources
                   THEN KevStage(cache, clock, req, intent.limit, sources = {"KEV"}, up.KEV)
                   ELSE SkippedStage(cache)} :
       \E zdi \in {IF "ZDI" \in sources
                   THEN ListStage(fetch_zdi_advisories(kev.cache, clock, ZdiDays(req), up.ZDI),
                                  ZdiKey(ZdiDays(req)), sources = {"ZDI"}, intent.limit)
                   ELSE SkippedStage(kev.cache)} :
       \E nvd \in {IF "NVD" \in sources
                   THEN ListStage(fetch_recent_nvd_cves(zdi.cache, clock, NvdDays(req), up.NVD),
                                  NvdKey(NvdDays(req)), sources = {"NVD"}, intent.limit)
                   ELSE SkippedStage(zdi.cache)} :
       \E merged \in {zdi.list \o nvd.list \o kev.list} :
       \E byVendor \in {QueryFilters(merged, [intent EXCEPT !.year = 0])} :
       \E passing \in {IF YearRaises(byVendor, intent) THEN byVendor
                       ELSE QueryFilters(merged, intent)} :
       \E ranked \in {QueryOrder(passing, intent, req)} :
       \E enriched \in {Enriched(nvd.cache, clock, ranked, svc)} :
       \E raisedAt \in {IF IntentRaises(intent) THEN "intent"
                        ELSE IF kev.r.raised THEN "fetch_kev_data"
                        ELSE IF YearRaises(byVendor, intent) THEN "year_filter"
                        ELSE IF passing = <<>> THEN "nowhere"
                        ELSE IF req.per_page = 0 \/ narrative # "ok" THEN "answer"
                        ELSE "nowhere"} :
       \E status \in {IF raisedAt # "nowhere" THEN 500
                      ELSE IF passing = <<>> THEN 404
                      ELSE 200} :
       \E r \in {IF raisedAt \in {"intent", "fetch_kev_data"}
                 THEN [cache |-> kev.r.cache, writes |-> EmptyDict,
                       returned |-> [KEV |-> <<>>, ZDI |-> <<>>, NVD |-> <<>>],
                       merged |-> <<>>, data |-> <<>>]
                 ELSE [cache |-> IF status = 404 \/ raisedAt = "year_filter"
                                 THEN nvd.cache ELSE enriched.cache,
                       writes |-> Writes(kev, zdi, nvd, req),
                       returned |-> [KEV |-> kev.r.value, ZDI |-> zdi.r.value,
                                     NVD |-> nvd.r.value],
                       merged |-> merged,
                       data |-> IF status = 200 THEN enriched.data ELSE <<>>]} :
           /\ cache' = r.cache
           /\ stored' = StoredAfter(stored, r.cache, r.writes)
           /\ call' = [name |-> "query", sources |-> intent.data_sources,
                       limit |-> intent.limit, sort_by |-> intent.sort_by,
                       outcome |-> reply.outcome, intent |-> intent,
                       words |-> req.words, per_page |-> req.per_page,
                       catalog |-> kev.list,
                       batch |-> IF status = 200 THEN ranked ELSE <<>>,
                       failed |-> Failed(up), passing |-> Len(passing),
                       narrative |-> narrative, raisedAt |-> raisedAt, status |-> status,
                       returned |-> r.returned, merged |-> r.merged, data |-> r.data,
                       page |-> IF status = 200 THEN Paged(r.data, req) ELSE NoPage]
    /\ UNCHANGED clock
    /\ AdapterFrame

\* line 1303-1452.  The response: 500 when fetch_kev_data raised (1313,
\* 1450-1452); count 0 and an error text when nothing is left (1380-1385).
export_csv(req, up, svc) ==
    /\ Idle
    /\ \E kev \in {KevStage(cache, clock, [req EXCEPT !.cutoff = 0], NoneVal, FALSE, up.KEV)} :
       \E zdi \in {ListStage(fetch_zdi_advisories(kev.cache, clock, ZdiDays(req), up.ZDI),
                             ZdiKey(ZdiDays(req)), FALSE, NoneVal)} :
       \E nvd \in {ListStage(fetch_recent_nvd_cves(zdi.cache, clock, NvdDays(req), up.NVD),
                             NvdKey(NvdDays(req)), FALSE, NoneVal)} :
       \E filtered_data \in {ExportFilters(zdi.list, nvd.list, kev.list, req)} :
       \E enriched \in {Enriched(nvd.cache, clock, filtered_data, svc)} :
       \E r \in {IF kev.r.raised
                 THEN [status |-> 500, cache |-> kev.r.cache, writes |-> EmptyDict,
                       returned |-> [KEV |-> <<>>, ZDI |-> <<>>, NVD |-> <<>>],
                       merged |-> <<>>, data |-> <<>>]
                 ELSE [status |-> 200,
                       cache |-> IF filtered_data = <<>> THEN nvd.cache ELSE enriched.cache,
                       writes |-> Writes(kev, zdi, nvd, req),
                       returned |-> [KEV |-> kev.r.value, ZDI |-> zdi.r.value,
                                     NVD |-> nvd.r.value],
                       merged |-> zdi.list \o nvd.list \o kev.list,
                       data |-> IF filtered_data = <<>> THEN <<>> ELSE enriched.data]} :
           /\ cache' = r.cache
           /\ stored' = StoredAfter(stored, r.cache, r.writes)
           /\ call' = [name |-> "export_csv", sources |-> {"KEV", "NVD", "ZDI"},
                       words |-> req.words, catalog |-> kev.list,
                       failed |-> Failed(up), status |-> r.status,
                       returned |-> r.returned, merged |-> r.merged, data |-> r.data,
                       count |-> Len(r.data)]
    /\ UNCHANGED clock
    /\ AdapterFrame

NextQuery ==
    \/ \E req \in QueryRequests, reply \in ParseReplies, svc \in QueryScoreServices,
          narrative \in Narratives :
           \E sources \in {FetchedSources(parse_query_with_claude(reply))} :
               \E uk \in Asked("KEV" \in sources, "kev_data", KevUpstreams),
                  uz \in Asked("ZDI" \in sources, ZdiKey(ZdiDays(req)), ZdiUpstreams),
                  un \in Asked("NVD" \in sources, NvdKey(NvdDays(req)), NvdUpstreams) :
                   query(req, reply, [KEV |-> uk, ZDI |-> uz, NVD |-> un], svc, narrative)
    \/ \E req \in ExportRequests, svc \in QueryScoreServices :
           \E uk \in Asked(TRUE, "kev_data", KevUpstreams),
              uz \in Asked(TRUE, ZdiKey(ZdiDays(req)), ZdiUpstreams),
              un \in Asked(TRUE, NvdKey(NvdDays(req)), NvdUpstreams) :
                   export_csv(req, [KEV |-> uk, ZDI |-> uz, NVD |-> un], svc)
    \/ \E up \in Asked(TRUE, "kev_data", KevUpstreams) : FetchKev(up)
    \/ \E up \in Asked(TRUE, ZdiKey(30), ZdiUpstreams) : FetchZdi(30, up)
    \/ \E up \in Asked(TRUE, NvdKey(30), NvdUpstreams) : FetchNvd(30, up)
    \/ TickQ
    \/ Respond

SpecQuery == Init /\ [][NextQuery]_vars

\* the keys the source adapters cache under
SourceKeys ==
    {"kev_data"} \cup {NvdKey(d) : d \in {7, 30}} \cup {ZdiKey(d) : d \in {7, 14, 30}}

\* C3: a cache entry is read-only while unexpired: under every source key
\* the cached value (the list, the order of its elements, the fields of its
\* records) equals the value that was stored, whatever requests ran since.
C3_CachedValueReadOnly ==
    \A k \in SourceKeys \cap DOMAIN cache :
        Unexpired(cache[k], clock) => cache[k].value = stored[k]

\* C5: for a query whose intent selects several sources, the failure of one
\* of them while another returns records that pass the filters does not fail
\* the request, and an error is answered only when all selected sources fail.
C5_PartialFailureTolerated ==
    (call.name = "query" /\ Cardinality(call.sources) > 1 /\ call.narrative = "ok"
        /\ call.intent.shape = "intent")
    => /\ (call.failed # {} /\ call.failed # call.sources /\ call.passing > 0)
              => (call.status = 200 /\ call.data # <<>>)
       /\ call.status = 500 => call.failed = call.sources

\* C6: no two records of a merged result set carry the same cveID.
C6_MergedIdsUnique ==
    call.name \in {"query", "export_csv"} =>
        \A i, j \in 1..Len(call.merged) :
            i # j => call.merged[i].cveID # call.merged[j].cveID

\* C7: when KEV returns one record for a CVE without a severity score, ZDI
\* returns one record for the same CVE with score 9.0 and NVD returns nothing,
\* the merge yields a single record for the CVE, with score 9.0 and source
\* CISA KEV.
C7_MergeFillsGapKeepsCatalog ==
    (/\ call.name = "query"
     /\ {"KEV", "ZDI"} \subseteq call.sources
     /\ Len(call.returned.KEV) = 1 /\ Len(call.returned.ZDI) = 1
     /\ call.returned.NVD = <<>>
     /\ call.returned.KEV[1].cveID = call.returned.ZDI[1].cveID
     /\ Unset(call.returned.KEV[1], "cvss_score")
     /\ call.returned.ZDI[1].cvss_score = 90)
    => /\ Len(call.merged) = 1
       /\ call.merged[1].cveID = call.returned.KEV[1].cveID
       /\ call.merged[1].cvss_score = 90
       /\ call.merged[1].source = "CISA KEV"

\* C19: an answer of the model that is no intent (not JSON, JSON that is no
\* object, an object whose filters is null, whose data_sources is no list or
\* whose year is no string) never makes /api/query answer with an error: the
\* request goes on with the fallback intent.
C19_MalformedReplyFallsBack ==
    (/\ call.name = "query"
     /\ call.outcome \in {"not_json", "not_object"} \/ call.intent.shape # "intent"
     /\ call.failed = {} /\ call.narrative = "ok")
    => /\ call.status # 500
       /\ [call.intent EXCEPT !.shape = "intent"] = FallbackIntent

\* the filters /api/query recognised in the intent, on one record
PassesIntent(v, intent) ==
    /\ intent.search_keywords # {} => TextOf(v) \cap intent.search_keywords # {}
    /\ intent.vendor # "" => Lower(intent.vendor) = Lower(extract_vendor_from_cve(v))
    /\ intent.year # 0 => Get(v, "dateAdded", 0) \div 10000 = intent.year

\* the filters /api/export-csv recognised in the text, on one record
PassesExport(v, filters) ==
    /\ filters.vendor # "" => filters.vendor = Lower(extract_vendor_from_cve(v))
    /\ filters.vuln_type # "" =>
           \E vt \in classify_vulnerability_type(v) :
               vt = filters.vuln_type \/ (filters.vuln_type = "sql" /\ vt = "sql injection")

\* C20: every record of the result of /api/query passes the keyword, the
\* vendor and the year filter of its intent at once, and every record of an
\* export passes the vendor and the type filter recognised in its text.
C20_FiltersConjunctive ==
    /\ call.name = "query" =>
           \A i \in 1..Len(call.data) : PassesIntent(call.data[i], call.intent)
    /\ call.name = "export_csv" =>
           \A i \in 1..Len(call.data) :
               PassesExport(call.data[i], extract_filters_from_query(call.words))

-----------------------------------------------------------------------------
(* SpecPipeline: /api/query and /api/export-csv on longer lists, with every *)
(* upstream answering: catalogues of which few or many entries name a       *)
(* ransomware campaign, intents with a limit, an order and a vendor, and    *)
(* requests for each page.                                                  *)

MaxPage == 3           \* SpecPipeline: request.page ranges over 1..MaxPage

\* the threshold of line 1362
RANSOMWARE_MIN == 10

PipelineKev == Answers({Catalog(5, 3), Catalog(MaxCatalog, RANSOMWARE_MIN)})
PipelineZdi == Answers({<<Z1, Z4>>})
PipelineNvd == Answers({<<N2, N1>>})

AllIds == Ids \cup {CatalogIds[i] : i \in DOMAIN CatalogIds}
PipelineScoreServices ==
    {[cvss |-> [i \in AllIds |-> [outcome |-> "timeout", score |-> 0]],
      epss |-> [outcome |-> "timeout", item |-> [i \in AllIds |-> NoneVal]]]}

PipelineIntents ==
    [data_sources : {{"KEV"}, {"ZDI"}, {"KEV", "NVD", "ZDI"}},
     search_keywords : {{}}, year : {0}, vendor : {"", "microsoft"},
     limit : {NoneVal, 1}, sort_by : {"none", "date", "cvss"}, shape : {"intent"}]

PipelineRequests ==
    [vendor : {""}, date_filter : {0}, words : {{}, {"ransomware"}}, cutoff : {0},
     page : 1..MaxPage, per_page : {2, 10}]

PipelineExports ==
    [vendor : {""}, date_filter : {0},
     words : {{}, {"ransomware"}, {"cisco", "ransomware"}},
     cutoff : {0}, page : {1}, per_page : {10}]

NextPipeline ==
    \/ /\ Idle
       /\ \E req \in PipelineRequests, intent \in PipelineIntents,
             svc \in PipelineScoreServices :
              \E uk \in Asked("KEV" \in intent.data_sources, "kev_data", PipelineKev),
                 uz \in Asked("ZDI" \in intent.data_sources, ZdiKey(ZdiDays(req)),
                              PipelineZdi),
                 un \in Asked("NVD" \in intent.data_sources, NvdKey(NvdDays(req)),
                              PipelineNvd) :
                  query(req, [outcome |-> "ok", intent |-> intent],
                        [KEV |-> uk, ZDI |-> uz, NVD |-> un], svc, "ok")
    \/ /\ Idle
       /\ \E req \in PipelineExports, svc \in PipelineScoreServices :
              \E uk \in Asked(TRUE, "kev_data", PipelineKev),
                 uz \in Asked(TRUE, ZdiKey(ZdiDays(req)), PipelineZdi),
                 un \in Asked(TRUE, NvdKey(NvdDays(req)), PipelineNvd) :
                  export_csv(req, [KEV |-> uk, ZDI |-> uz, NVD |-> un], svc)
    \/ TickQ
    \/ Respond

SpecPipeline == Init /\ [][NextPipeline]_vars

\* what tells one record of a result from another
Ident(v) == <<Get(v, "source", ""), v.cveID, Get(v, "dateAdded", 0)>>
Idents(list) == {Ident(list[i]) : i \in 1..Len(list)}

\* the records that name a ransomware campaign
Flagged(v) == Lower(Get(v, "knownRansomwareCampaignUse", "")) = "known"

\* the records of the merge that pass the filters of the request
Candidates ==
    IF call.name = "query"
    THEN Filter(call.merged, LAMBDA v : PassesIntent(v, call.intent))
    ELSE Filter(call.merged,
                LAMBDA v : PassesExport(v, extract_filters_from_query(call.words)))

\* C21: for a request with the word ransomware, when fewer than 10 of the
\* records that pass the filters name a ransomware campaign the result is the
\* catalogue subset, and when 10 or more do the result is exactly those.
C21_RansomwareRelaxation ==
    (/\ call.name \in {"query", "export_csv"}
     /\ "ransomware" \in call.words
     /\ call.status = 200
     /\ call.name = "query" => call.limit = NoneVal)
    => LET strict == Filter(Candidates, Flagged)
           expected == IF Len(strict) < RANSOMWARE_MIN THEN call.catalog ELSE strict
       IN  /\ Len(call.data) = Len(expected)
           /\ Idents(call.data) = Idents(expected)

\* where a record of the result stands in the merged list
MergeIndex(v) ==
    CHOOSE p \in 1..Len(call.merged) : Ident(call.merged[p]) = Ident(v)

\* C22: the ranked list of a query, after enrichment and before pagination,
\* is in non-increasing dateAdded order when the intent sorts by date, in
\* non-increasing severity order when it sorts by severity, and in merge
\* order when it names no order.
C22_RankedAsIntentSays ==
    (call.name = "query" /\ call.status = 200) =>
        \A i, j \in 1..Len(call.data) :
            i < j =>
                /\ call.sort_by = "date" => DateKey(call.data[i]) >= DateKey(call.data[j])
                /\ call.sort_by = "cvss" =>
                       CvssSortKey(call.data[i]) >= CvssSortKey(call.data[j])
                /\ call.sort_by = "none" =>
                       MergeIndex(call.data[i]) < MergeIndex(call.data[j])

\* the value the adapter of source s fetched, or the one it found cached, as
\* it was handed to cache.set
AdapterValue(s) ==
    LET k == IF s = "KEV" THEN "kev_data"
             ELSE IF s = "ZDI" THEN ZdiKey(IF call.words \cap ShortWindowWords # {}
                                           THEN 14 ELSE 30)
             ELSE NvdKey(IF call.words \cap ShortWindowWords # {} THEN 7 ELSE 30)
    IN  IF s \in call.sources /\ k \in DOMAIN stored THEN stored[k] ELSE <<>>

\* the list of one source that goes into the merge (line 926-931, 949-953,
\* 961-965)
EarlyLimit(list, alone, limit) ==
    IF alone /\ Truthy(limit) THEN Take(SortDesc(list, DateKey), limit) ELSE list

\* the ranked list the stages of the handler make of three adapter values
RankedFrom(zdi, nvd, kev, intent, words) ==
    LET req == [words |-> words]
        merged == EarlyLimit(zdi, intent.data_sources = {"ZDI"}, intent.limit)
                      \o EarlyLimit(nvd, intent.data_sources = {"NVD"}, intent.limit)
                      \o EarlyLimit(Map(kev, Marked), intent.data_sources = {"KEV"},
                                    intent.limit)
    IN  SortDesc(QueryOrder(QueryFilters(merged, intent), intent, req), CvssSortKey)

\* the place of a record in the order of insertion into the merge: its
\* source, then its place in what the adapter of that source stored
SourceRank(v) ==
    IF Get(v, "source", "") = "ZDI" THEN 1
    ELSE IF Get(v, "source", "") = "NVD Recent" THEN 2 ELSE 3
AdapterIndex(v) ==
    LET list == AdapterValue(IF SourceRank(v) = 1 THEN "ZDI"
                             ELSE IF SourceRank(v) = 2 THEN "NVD" ELSE "KEV")
    IN  CHOOSE p \in 1..Len(list) :
            list[p].cveID = v.cveID /\ DateKey(list[p]) = DateKey(v)
InsertedBefore(v, w) ==
    \/ SourceRank(v) < SourceRank(w)
    \/ SourceRank(v) = SourceRank(w) /\ AdapterIndex(v) < AdapterIndex(w)

\* the key of the order the intent names
ChosenKey(v) ==
    IF call.sort_by = "date" THEN DateKey(v)
    ELSE IF call.sort_by = "cvss" THEN CvssSortKey(v) ELSE 0

\* C23: the order of the ranked list of a query is the one the stages make of
\* the intent and of the values the adapters fetched or cached, whatever
\* requests were answered before, and records with equal sort keys stand in
\* the order of their insertion into the merge (ZDI, NVD, KEV, each in the
\* order of its adapter).
C23_OrderDeterministic ==
    (call.name = "query" /\ call.status = 200) =>
        /\ Map(call.data, Ident)
               = Map(RankedFrom(AdapterValue("ZDI"), AdapterValue("NVD"),
                                AdapterValue("KEV"), call.intent, call.words), Ident)
        /\ \A i, j \in 1..Len(call.data) :
               (i < j /\ ChosenKey(call.data[i]) = ChosenKey(call.data[j]))
                   => InsertedBefore(call.data[i], call.data[j])

\* C24: for a query with limit L of which more than L records pass the
\* filters, the enrichment is given exactly the L records left by the limit
\* and the total count of the answer is the number of records that passed the
\* filters.
C24_TotalCountBeforeLimit ==
    (/\ call.name = "query" /\ call.status = 200
     /\ call.limit # NoneVal /\ call.passing > call.limit)
    => /\ Len(call.batch) = call.limit
       /\ call.page.total_count = call.passing

\* the pages 1..n of a list, one after the other
RECURSIVE Pages(_, _, _)
Pages(list, per_page, n) ==
    IF n = 0 THEN <<>>
    ELSE Pages(list, per_page, n - 1) \o Slice(list, (n - 1) * per_page, n * per_page)

\* C25: for page >= 1 and per_page >= 1 the page of the answer is the slice
\* [(page-1)*per_page, page*per_page) of the ranked list, total_pages is
\* total_count / per_page rounded up, the pages 1..total_pages together are
\* the ranked list, and count is the number of records on the page, which is
\* 0 past the last page and never negative.
C25_PageMetadataAgrees ==
    (/\ call.name = "query" /\ call.status = 200
     /\ call.page.current_page >= 1 /\ call.per_page >= 1)
    => LET pg == call.page
           per_page == call.per_page
       IN  /\ pg.page_data = Slice(call.data, (pg.current_page - 1) * per_page,
                                   pg.current_page * per_page)
           /\ pg.total_pages * per_page >= pg.total_count
           /\ (pg.total_pages - 1) * per_page < pg.total_count
           /\ Pages(call.data, per_page, pg.total_pages) = call.data
           /\ pg.count = Len(pg.page_data)
           /\ pg.count >= 0

\* all the records the adapters of the selected sources returned
FullMerge ==
    call.returned.ZDI \o call.returned.NVD \o Map(call.returned.KEV, Marked)

\* C26: the limit removes no record before the keyword, vendor and year
\* filters have been applied: the filters see every record of the selected
\* sources, and a query with limit L of which at least L records pass the
\* filters returns exactly L records, whether it selects one source or more.
C26_LimitAfterFilters ==
    (call.name = "query" /\ call.limit # NoneVal /\ call.raisedAt = "nowhere") =>
        LET available == Len(QueryFilters(FullMerge, call.intent))
        IN  /\ call.passing = available
            /\ available >= call.limit =>
                   (call.status = 200 /\ Len(call.data) = call.limit)

-----------------------------------------------------------------------------
(* optimize_query, api_enhanced.py 770-856.  A query text is the sequence   *)
(* of its characters; a string of the code is spelled out by Str.          *)

UpperCase == <<"A", "B", "C", "D", "E", "F", "G", "H", "I", "J", "K", "L", "M",
               "N", "O", "P", "Q", "R", "S", "T", "U", "V", "W", "X", "Y", "Z">>
LowerCase == <<"a", "b", "c", "d", "e", "f", "g", "h", "i", "j", "k", "l", "m",
               "n", "o", "p", "q", "r", "s", "t", "u", "v", "w", "x", "y", "z">>
Digits == <<"0", "1", "2", "3", "4", "5", "6", "7", "8", "9">>

\* the strings of line 775-837 and of the query texts, character by character
Spelling ==
    (  "kev"             :> <<"k", "e", "v">> @@
       "exploited"       :> <<"e", "x", "p", "l", "o", "i", "t", "e", "d">> @@
       "cisa"            :> <<"c", "i", "s", "a">> @@
       "ransomware"      :> <<"r", "a", "n", "s", "o", "m", "w", "a", "r", "e">> @@
       "actively"        :> <<"a", "c", "t", "i", "v", "e", "l", "y">> @@
       "nvd"             :> <<"n", "v", "d">> @@
       "recent"          :> <<"r", "e", "c", "e", "n", "t">> @@
       "latest"          :> <<"l", "a", "t", "e", "s", "t">> @@
       "new"             :> <<"n", "e", "w">> @@
       "published"       :> <<"p", "u", "b", "l", "i", "s", "h", "e", "d">> @@
       "zdi"             :> <<"z", "d", "i">> @@
       "zero-day"        :> <<"z", "e", "r", "o", "-", "d", "a", "y">> @@
       "zero day"        :> <<"z", "e", "r", "o", " ", "d", "a", "y">> @@
       "zeroday"         :> <<"z", "e", "r", "o", "d", "a", "y">> @@
       "0-day"           :> <<"0", "-", "d", "a", "y">> @@
       "0day"            :> <<"0", "d", "a", "y">> @@
       "earliest"        :> <<"e", "a", "r", "l", "i", "e", "s", "t">> @@
       " all "           :> <<" ", "a", "l", "l", " ">> @@
       "all "            :> <<"a", "l", "l", " ">> @@
       " all"            :> <<" ", "a", "l", "l">> @@
       "every"           :> <<"e", "v", "e", "r", "y">> @@
       "entire"          :> <<"e", "n", "t", "i", "r", "e">> @@
       "complete"        :> <<"c", "o", "m", "p", "l", "e", "t", "e">> @@
       "top"             :> <<"t", "o", "p">> @@
       "first"           :> <<"f", "i", "r", "s", "t">> @@
       "last"            :> <<"l", "a", "s", "t">> @@
       "show"            :> <<"s", "h", "o", "w">> @@
       "kevs"            :> <<"k", "e", "v", "s">> @@
       "vulnerabilities" :> <<"v", "u", "l", "n", "e", "r", "a", "b", "i", "l", "i", "t", "i", "e", "s">> @@
       "vulns"           :> <<"v", "u", "l", "n", "s">> @@
       "cves"            :> <<"c", "v", "e", "s">> @@
       "items"           :> <<"i", "t", "e", "m", "s">> @@
       "me"              :> <<"m", "e">> @@
       "of"              :> <<"o", "f">> @@
       "20"              :> <<"2", "0">> @@
       "order by date"   :> <<"o", "r", "d", "e", "r", " ", "b", "y", " ", "d", "a", "t", "e">> @@
       "sort by date"    :> <<"s", "o", "r", "t", " ", "b", "y", " ", "d", "a", "t", "e">> @@
       "sorted by date"  :> <<"s", "o", "r", "t", "e", "d", " ", "b", "y", " ", "d", "a", "t", "e">> @@
       "by date"         :> <<"b", "y", " ", "d", "a", "t", "e">> @@
       "chronological"   :> <<"c", "h", "r", "o", "n", "o", "l", "o", "g", "i", "c", "a", "l">> @@
       "all"             :> <<"a", "l", "l">> @@
       "firewall"        :> <<"f", "i", "r", "e", "w", "a", "l", "l">> @@
       "top 10"          :> <<"t", "o", "p", " ", "1", "0">> @@
       "show me 5"       :> <<"s", "h", "o", "w", " ", "m", "e", " ", "5">> @@
       "10 items"        :> <<"1", "0", " ", "i", "t", "e", "m", "s">> @@
       "KEVs"            :> <<"K", "E", "V", "s">> @@
       "2025"            :> <<"2", "0", "2", "5">> @@
       " "               :> <<" ">> @@
       ", "              :> <<",", " ">> @@
       "top "            :> <<"t", "o", "p", " ">> @@
       " items"          :> <<" ", "i", "t", "e", "m", "s">> @@
       "show me "        :> <<"s", "h", "o", "w", " ", "m", "e", " ">>)

Str(s) == Spelling[s]

\* str.lower()
LowerChar(c) ==
    IF \E i \in DOMAIN UpperCase : UpperCase[i] = c
    THEN LowerCase[CHOOSE i \in DOMAIN UpperCase : UpperCase[i] = c]
    ELSE c
LowerText(t) == [i \in 1..Len(t) |-> LowerChar(t[i])]

\* the character classes of re: \d, \w and \s
IsDigit(c) == \E i \in DOMAIN Digits : Digits[i] = c
IsWordChar(c) ==
    \/ IsDigit(c)
    \/ c = "_"
    \/ \E i \in DOMAIN LowerCase : LowerCase[i] = c \/ UpperCase[i] = c
IsSpace(c) == c \in {" ", "\t", "\n"}

\* int(group)
DigitValue(c) == (CHOOSE i \in DOMAIN Digits : Digits[i] = c) - 1
RECURSIVE IntOf(_)
IntOf(ds) ==
    IF ds = <<>> THEN 0
    ELSE 10 * IntOf(SubSeq(ds, 1, Len(ds) - 1)) + DigitValue(ds[Len(ds)])

\* the text t has w right after its first p characters
At(t, p, w) == p + Len(w) <= Len(t) /\ \A j \in 1..Len(w) : t[p + j] = w[j]

\* w in t
Contains(t, w) == \E p \in 0..Len(t) : At(t, p, w)

\* any(word in query_lower for word in [...])
ContainsAny(t, strs) == \E s \in strs : Contains(t, Str(s))

\* \b after the first p characters of t
Boundary(t, p) ==
    (p >= 1 /\ IsWordChar(t[p])) # (p < Len(t) /\ IsWordChar(t[p + 1]))

\* where \s+ and \d+ end when they start after the first p characters; they
\* take every character they can, since what follows them in the patterns
\* cannot start with a character of their class
SpaceEnd(t, p) ==
    CHOOSE q \in p..Len(t) :
        /\ \A j \in (p + 1)..q : IsSpace(t[j])
        /\ q = Len(t) \/ ~IsSpace(t[q + 1])
DigitEnd(t, p) ==
    CHOOSE q \in p..Len(t) :
        /\ \A j \in (p + 1)..q : IsDigit(t[j])
        /\ q = Len(t) \/ ~IsDigit(t[q + 1])

\* \s+(\d+)\b after the first p characters: whether it matches, and the group
SpacesNumber(t, p) ==
    LET a == SpaceEnd(t, p)
        b == DigitEnd(t, a)
    IN  [ok |-> a > p /\ b > a /\ Boundary(t, b),
         number |-> IntOf(SubSeq(t, a + 1, b))]

\* \b(\d+)\s+ after the first p characters: whether it matches, the group,
\* and where the match has got to
NumberSpaces(t, p) ==
    LET b == DigitEnd(t, p)
        a == SpaceEnd(t, b)
    IN  [ok |-> Boundary(t, p) /\ b > p /\ a > b,
         number |-> IntOf(SubSeq(t, p + 1, b)),
         end |-> a]

\* re.search returns the leftmost match
Leftmost(ps) == CHOOSE p \in ps : \A q \in ps : p <= q

\* line 810: r'\b(top|first|last|show|latest)\s+(\d+)\b'
WordNumberWords == {"top", "first", "last", "show", "latest"}
WordNumberAt(t, p) ==
    /\ Boundary(t, p)
    /\ \E w \in WordNumberWords :
           At(t, p, Str(w)) /\ SpacesNumber(t, p + Len(Str(w))).ok
WordNumber(t) ==
    LET ps == {p \in 0..Len(t) : WordNumberAt(t, p)}
    IN  IF ps = {} THEN NoneVal
        ELSE LET p == Leftmost(ps)
                 w == CHOOSE w \in WordNumberWords :
                          At(t, p, Str(w)) /\ SpacesNumber(t, p + Len(Str(w))).ok
             IN  SpacesNumber(t, p + Len(Str(w))).number

\* line 811: r'\b(\d+)\s+(kevs|vulnerabilities|vulns|cves|items)\b'
\* line 813: r'\b(\d+)\s+of\b'
NumberWordAt(t, p, words) ==
    /\ NumberSpaces(t, p).ok
    /\ \E w \in words :
           /\ At(t, NumberSpaces(t, p).end, Str(w))
           /\ Boundary(t, NumberSpaces(t, p).end + Len(Str(w)))
NumberWord(t, words) ==
    LET ps == {p \in 0..Len(t) : NumberWordAt(t, p, words)}
    IN  IF ps = {} THEN NoneVal ELSE NumberSpaces(t, Leftmost(ps)).number

\* line 812: r'\bshow\s+me\s+(\d+)\b'
ShowMeAt(t, p) ==
    /\ Boundary(t, p)
    /\ At(t, p, Str("show"))
    /\ SpaceEnd(t, p + 4) > p + 4
    /\ At(t, SpaceEnd(t, p + 4), Str("me"))
    /\ SpacesNumber(t, SpaceEnd(t, p + 4) + 2).ok
ShowMe(t) ==
    LET ps == {p \in 0..Len(t) : ShowMeAt(t, p)}
    IN  IF ps = {} THEN NoneVal
        ELSE SpacesNumber(t, SpaceEnd(t, Leftmost(ps) + 4) + 2).number

\* line 816-829: a pattern that matches sets limit; the loop ends at the
\* first limit that is not zero
NextLimit(limit, found) ==
    IF limit # NoneVal /\ limit # 0 THEN limit
    ELSE IF found # NoneVal THEN found
    ELSE limit

\* line 801
AllWords == {" all ", "all ", " all", "every", "entire", "complete"}

\* line 798-829
DetectLimit(t) ==
    IF ContainsAny(t, AllWords) THEN NoneVal
    ELSE NextLimit(NextLimit(NextLimit(NextLimit(NoneVal,
             WordNumber(t)),
             NumberWord(t, {"kevs", "vulnerabilities", "vulns", "cves", "items"})),
             ShowMe(t)),
             NumberWord(t, {"of"}))

\* line 842-846: r'\b(20\d{2})\b'; 0 stands for None
YearAt(t, p) ==
    /\ Boundary(t, p)
    /\ At(t, p, Str("20"))
    /\ p + 4 <= Len(t)
    /\ IsDigit(t[p + 3]) /\ IsDigit(t[p + 4])
    /\ Boundary(t, p + 4)
DetectYear(t) ==
    LET ps == {p \in 0..Len(t) : YearAt(t, p)}
    IN  IF ps = {} THEN 0
        ELSE IntOf(SubSeq(t, Leftmost(ps) + 1, Leftmost(ps) + 4))

\* line 775-777
KevWords == {"kev", "exploited", "cisa", "ransomware", "actively"}
NvdWords == {"nvd", "recent", "latest", "new", "published"}
ZeroDaySpellings == {"zero-day", "zero day", "zeroday", "0-day", "0day"}
ZdiWords == {"zdi", "earliest"} \cup ZeroDaySpellings

\* line 837
DateSortPhrases ==
    {"order by date", "sort by date", "sorted by date", "by date", "chronological"}

\* line 774-795
DetectSources(t) ==
    IF Contains(t, Str("kev"))
    THEN [needs_kev |-> TRUE, needs_nvd |-> FALSE, needs_zdi |-> FALSE]
    ELSE IF Contains(t, Str("zdi")) \/ ContainsAny(t, ZeroDaySpellings)
         THEN [needs_kev |-> FALSE, needs_nvd |-> TRUE, needs_zdi |-> TRUE]
    ELSE IF ~ContainsAny(t, KevWords) /\ ~ContainsAny(t, NvdWords)
                /\ ~ContainsAny(t, ZdiWords)
         THEN [needs_kev |-> TRUE, needs_nvd |-> TRUE, needs_zdi |-> TRUE]
    ELSE [needs_kev |-> ContainsAny(t, KevWords),
          needs_nvd |-> ContainsAny(t, NvdWords),
          needs_zdi |-> ContainsAny(t, ZdiWords)]

\* line 770-856
optimize_query(query_text) ==
    LET query_lower == LowerText(query_text)
        sources == DetectSources(query_lower)
    IN  [needs_kev |-> sources.needs_kev,
         needs_nvd |-> sources.needs_nvd,
         needs_zdi |-> sources.needs_zdi,
         limit |-> DetectLimit(query_lower),
         sort_by_date |-> ContainsAny(query_lower, DateSortPhrases),
         year_filter |-> DetectYear(query_lower)]

-----------------------------------------------------------------------------
(* SpecResolve: the two resolvers on query texts that are put together     *)
(* from up to MaxPhrases phrases.                                           *)

MaxPhrases == 3        \* SpecResolve: a query text has 1..MaxPhrases phrases

Phrases == {"all", "every", "firewall", "top 10", "show me 5", "10 items",
            "KEVs", "nvd", "zdi", "latest", "ransomware", "zero-day", "2025",
            "by date"}
Separators == {" ", ", "}

RECURSIVE Joined(_, _)
Joined(phrases, sep) ==
    IF Len(phrases) = 1 THEN Str(phrases[1])
    ELSE Str(phrases[1]) \o Str(sep) \o Joined(Tail(phrases), sep)

QueryTexts ==
    {Joined(ps, sep) : ps \in UNION {[1..n -> Phrases] : n \in 1..MaxPhrases},
                       sep \in Separators}

\* what the model answered to the parsing prompt: an intent, or nothing usable
ResolveReplies ==
    {[outcome |-> "ok", intent |-> [FallbackIntent EXCEPT !.data_sources = {"KEV"}]],
     [outcome |-> "error", intent |-> FallbackIntent]}

ResolveFrame == UNCHANGED <<cache, lock, clock, pc, op, entry, now, ret, last, stored,
                            cvss_cache, epss_cache>>

OptimizeQuery(text) ==
    /\ Idle
    /\ call' = [name |-> "optimize_query", text |-> text,
                intent |-> optimize_query(text)]
    /\ ResolveFrame

\* line 869: the intent the pipeline goes on with, next to the one
\* optimize_query has for the same text
ParseQuery(text, reply) ==
    /\ Idle
    /\ call' = [name |-> "parse_query_with_claude", text |-> text,
                outcome |-> reply.outcome,
                intent |-> parse_query_with_claude(reply),
                resolved |-> optimize_query(text)]
    /\ ResolveFrame

NextResolve ==
    \/ /\ Idle
       /\ \E text \in QueryTexts : OptimizeQuery(text)
    \/ /\ Idle
       /\ \E text \in QueryTexts, reply \in ResolveReplies : ParseQuery(text, reply)
    \/ Respond

SpecResolve == Init /\ [][NextResolve]_vars

\* a word of the text: w between two word boundaries, in any case
HasToken(t, w) ==
    \E p \in 0..Len(t) :
        /\ Boundary(t, p)
        /\ At(LowerText(t), p, Str(w))
        /\ Boundary(t, p + Len(Str(w)))

WantsAll(t) == \E w \in {"all", "every", "entire"} : HasToken(t, w)

\* the decimal numeral of n
Numeral(n) ==
    IF n < 10 THEN <<Digits[n + 1]>>
    ELSE <<Digits[(n \div 10) + 1], Digits[(n % 10) + 1]>>

MaxLimit == 10         \* SpecResolve: the numbers looked for in a text are 0..MaxLimit

\* the numbers the text asks for as 'top N', 'N items' or 'show me N'
AskedNumbers(t) ==
    {n \in 0..MaxLimit :
        \E phrase \in {Str("top ") \o Numeral(n), Numeral(n) \o Str(" items"),
                       Str("show me ") \o Numeral(n)} :
            \E p \in 0..Len(t) :
                /\ Boundary(t, p)
                /\ At(LowerText(t), p, phrase)
                /\ Boundary(t, p + Len(phrase))}

\* the sources the text names
NamedSources(t) ==
    {s \in {"KEV", "NVD", "ZDI"} :
        \/ s = "KEV" /\ (HasToken(t, "kev") \/ HasToken(t, "kevs"))
        \/ s = "NVD" /\ HasToken(t, "nvd")
        \/ s = "ZDI" /\ HasToken(t, "zdi")}

\* the source set of an intent of optimize_query
ResolvedSources(intent) ==
    {s \in {"KEV", "NVD", "ZDI"} :
        \/ s = "KEV" /\ intent.needs_kev
        \/ s = "NVD" /\ intent.needs_nvd
        \/ s = "ZDI" /\ intent.needs_zdi}

\* C14: for a text that has the word all, every or entire, optimize_query
\* returns limit None, whatever numbers the text has.
C14_AllMeansNoLimit ==
    (call.name = "optimize_query" /\ WantsAll(call.text))
        => call.intent.limit = NoneVal

\* C15: for a text that asks for one number N as 'top N', 'N items' or
\* 'show me N' and has none of the words all, every, entire, optimize_query
\* returns limit N.
C15_ExplicitNumberIsLimit ==
    (call.name = "optimize_query" /\ ~WantsAll(call.text))
        => \A n \in AskedNumbers(call.text) :
               AskedNumbers(call.text) = {n} => call.intent.limit = n

\* C16: for a text that names exactly one of KEV, NVD and ZDI, the source
\* set optimize_query resolves is that source alone.
C16_NamedSourceOnly ==
    (call.name = "optimize_query" /\ Cardinality(NamedSources(call.text)) = 1)
        => ResolvedSources(call.intent) = NamedSources(call.text)

\* C17: for a text that names none of the three sources, the source set
\* optimize_query resolves has all three.
C17_NoNamedSourceMeansAll ==
    (call.name = "optimize_query" /\ NamedSources(call.text) = {})
        => ResolvedSources(call.intent) = {"KEV", "NVD", "ZDI"}

\* C18: when the call to the model fails or its answer does not parse, the
\* intent the pipeline goes on with has the sources, the limit, the year and
\* the sort order that optimize_query resolves for the same text.
C18_FallbackIsDeterministicResolver ==
    (call.name = "parse_query_with_claude" /\ call.outcome # "ok")
        => /\ call.intent.data_sources = ResolvedSources(call.resolved)
           /\ call.intent.limit = call.resolved.limit
           /\ call.intent.year = call.resolved.year_filter
           /\ (call.intent.sort_by = "date") = call.resolved.sort_by_date

=============================================================================
